---- MODULE Spec2Model ----
(***************************************************************************)
(* Process run management of coco (app/src-tauri): RunService (build /     *)
(* test / deploy runs) and ScriptService (script runs).  Every await point *)
(* of the Rust code is a step boundary; code between two awaits is one     *)
(* atomic step.  The durable store is taken to execute every statement it  *)
(* is given (no Database errors); kill() on a held Child succeeds.         *)
(***************************************************************************)
EXTENDS Integers, Sequences, FiniteSets, TLC

\* ------------------------------------------------------------------ bounds
MaxRuns == 2
MaxCancellers == 2
MaxExitCode == 1

RunIds == 1..MaxRuns
\* a run id no start operation ever generated
UnknownId == MaxRuns + 1
CancelTargets == RunIds \cup {UnknownId}
Cancellers == 1..MaxCancellers
ExitCodes == 0..MaxExitCode

MaxScriptRuns == 1
MaxCancelCalls == 2
MaxChunks == 1

ScriptRunIds == 1..MaxScriptRuns
\* a run id no start operation ever generated
UnknownScriptId == MaxScriptRuns + 1
ScriptCancelTargets == ScriptRunIds \cup {UnknownScriptId}
Streams == {"stdout", "stderr"}
FlagNames == {"--verbose", "--name"}

\* runs whose process output is followed line by line, and the cancel_run
\* calls made while it is
MaxLoggedRuns == 1
MaxLogCancellers == 1
MaxLines == 2

LoggedRunIds == 1..MaxLoggedRuns
LogCancellers == 1..MaxLogCancellers

\* --------------------------------------------------- functions on values
\* the functions of the services that touch no service state (get_*_command,
\* build_command, is_valid_env_key) are applied to an input, one call at a time
VARIABLES
    call_args,          \* the arguments of the call
    call_ret            \* what the call returned (NotCalled before it)

callVars == <<call_args, call_ret>>

\* ------------------------------------------------------------- RunService
VARIABLES
    runs_db,            \* table runs: run id -> row (NoRun when there is no row)
    active_runs,        \* RunService.active_runs: run id -> cached Run
    active_processes,   \* RunService.active_processes: ids that map to a Child
    processes_lock,     \* holder of the active_processes RwLock
    run_logs_present,   \* keys of RunService.run_logs
    run_logs_readers,   \* completion tasks holding run_logs.read()
    proc,               \* OS process of the run
    proc_code,          \* exit code of an exited process
    start_pc,           \* position of start_build / start_test / start_deploy
    start_result,       \* what the start operation returned
    task_pc,            \* position of the completion task
    task_exit,          \* its local exit_status (Option<ExitStatus>)
    cancel_pc,          \* position of a cancel_run call
    cancel_target,      \* its run_id argument
    cancel_found,       \* whether processes.remove(run_id) returned a Child
    cancel_result,      \* what the call returned
    db_writers,         \* history: which handlers UPDATEd the run's row
    wait_err,           \* history: child.wait() returned Err
    run_logs,           \* RunService.run_logs: run id -> Vec<String>
    db_run_logs,        \* table run_logs: run id -> rows (log_order, line)
    output_tx,          \* lines sent on the run's output channel, in order
    delivery,           \* the run's delivery path: receiver and event emission
    run_output,         \* "run-output" events the window was given, in order
    out_emitted,        \* lines the process has written, per stream
    out_pipe,           \* lines written and not yet read, per stream
    line_pc,            \* position of the stdout / stderr line reader task
    line_local          \* its local `line` / `formatted`

logProcVars == <<out_emitted, out_pipe>>
logReaderVars == <<line_pc, line_local>>
logChanVars == <<output_tx, delivery, run_output>>
logStoreVars == <<run_logs, db_run_logs, logChanVars>>
logVars == <<logStoreVars, logProcVars, logReaderVars>>

runVars == <<runs_db, active_runs, active_processes, processes_lock,
             run_logs_present, run_logs_readers, proc, proc_code, start_pc,
             start_result, task_pc, task_exit, cancel_pc, cancel_target,
             cancel_found, cancel_result, db_writers, wait_err, logVars>>

\* ---------------------------------------------------------- ScriptService
VARIABLES
    script_runs,         \* table script_runs: run id -> row
    script_active_runs,  \* ScriptService.active_runs: ids that map to a cancel_tx
    cancel_chan,         \* the run's oneshot channel
    sproc,               \* OS process of the script run
    sproc_code,          \* exit code of an exited process
    emitted,             \* chunks the process has written, per stream
    pipe,                \* chunks written and not yet read, per stream
    reader_pc,           \* position of the stdout / stderr reader task
    reader_text,         \* its local `text`
    sstart_op,           \* which operation uses the run id
    sstart_pc,           \* position of start_script / execute_script
    sstart_result,       \* what the operation returned
    script_required,     \* flag names script.flags declares required
    script_input,        \* keys of input.flags
    stask_pc,            \* position of the background task
    stask_result,        \* its local `result` of child.wait()
    cancel_calls,        \* history: results of the cancel_script calls, in order
    signals_sent,        \* history: cancel_tx.send(()) executed
    kill_count,          \* history: child.kill() executed
    status_writes,       \* history: terminal statuses written, with the branch
    select_ready         \* history: branches ready when select! resolved

scriptVars == <<script_runs, script_active_runs, cancel_chan, sproc, sproc_code,
                emitted, pipe, reader_pc, reader_text, sstart_op, sstart_pc,
                sstart_result, script_required, script_input, stask_pc,
                stask_result, cancel_calls, signals_sent, kill_count,
                status_writes, select_ready>>

\* Option<T>: None is <<>>, Some(x) is <<x>>
None == <<>>
Some(x) == <<x>>

NoRun == [status |-> "absent", exit_code |-> None, ended_at |-> FALSE]
NewRun == [status |-> "running", exit_code |-> None, ended_at |-> FALSE]

Terminal(status) == status \in {"success", "failed", "cancelled"}

Free == <<"free", 0>>

\* std::process::ExitStatus of a process that exited with `code`
ExitedStatus(code) == [code |-> Some(code), success |-> code = 0]

\* ----------------------------------------------------------------- resolver
Markers == {"foundry.toml", "Anchor.toml", "Move.toml",
            "hardhat.config.js", "hardhat.config.ts"}
RunTypes == {"build", "test", "deploy"}
ValidationErr == [ok |-> FALSE, argv |-> <<"Unknown project framework">>]
Argv(a) == [ok |-> TRUE, argv |-> a]

\* get_test_command with a fault: Move.toml is looked for first
get_test_command_move_first(present) ==
    IF "Move.toml" \in present THEN Argv(<<"aptos", "move", "test">>)
    ELSE IF "foundry.toml" \in present THEN Argv(<<"forge", "test", "-vvv">>)
    ELSE IF "Anchor.toml" \in present THEN Argv(<<"anchor", "test">>)
    ELSE IF "hardhat.config.js" \in present \/ "hardhat.config.ts" \in present
         THEN Argv(<<"npx", "hardhat", "test">>)
    ELSE ValidationErr

get_build_command(present) ==
    IF "foundry.toml" \in present THEN Argv(<<"forge", "build">>)
    ELSE IF "Anchor.toml" \in present THEN Argv(<<"anchor", "build">>)
    ELSE IF "Move.toml" \in present THEN Argv(<<"aptos", "move", "compile">>)
    ELSE IF "hardhat.config.js" \in present \/ "hardhat.config.ts" \in present
         THEN Argv(<<"npx", "hardhat", "compile">>)
    ELSE ValidationErr

get_test_command(present) ==
    IF "foundry.toml" \in present THEN Argv(<<"forge", "test", "-vvv">>)
    ELSE IF "Anchor.toml" \in present THEN Argv(<<"anchor", "test">>)
    ELSE IF "Move.toml" \in present THEN Argv(<<"aptos", "move", "test">>)
    ELSE IF "hardhat.config.js" \in present \/ "hardhat.config.ts" \in present
         THEN Argv(<<"npx", "hardhat", "test">>)
    ELSE ValidationErr

get_deploy_command(present, script_path) ==
    IF "foundry.toml" \in present
         THEN Argv(<<"forge", "script", script_path, "--broadcast">>)
    ELSE IF "Anchor.toml" \in present THEN Argv(<<"anchor", "deploy">>)
    ELSE IF "Move.toml" \in present THEN Argv(<<"aptos", "move", "publish">>)
    ELSE IF "hardhat.config.js" \in present \/ "hardhat.config.ts" \in present
         THEN Argv(<<"npx", "hardhat", "run", script_path>>)
    ELSE ValidationErr

ResolveCommand(rt, present) ==
    CASE rt = "build" -> get_build_command(present)
      [] rt = "test" -> get_test_command(present)
      [] OTHER -> get_deploy_command(present, "script/Deploy.s.sol")

\* ------------------------------------------------------- store statements
\* UpdateCancelled with a fault: the statement sets the status alone
UpdateCancelledStatusOnly(table, id) ==
    IF id \in DOMAIN table /\ table[id].status # "absent"
    THEN [table EXCEPT ![id].status = "cancelled"]
    ELSE table

\* UPDATE runs SET status = ?, ended_at = ? WHERE id = ?
UpdateCancelled(table, id) ==
    IF id \in DOMAIN table /\ table[id].status # "absent"
    THEN [table EXCEPT ![id].status = "cancelled", ![id].ended_at = TRUE]
    ELSE table

\* UPDATE runs SET status = ?, exit_code = ?, ended_at = ? WHERE id = ?
UpdateCompleted(table, id, status, exit_code) ==
    IF id \in DOMAIN table /\ table[id].status # "absent"
    THEN [table EXCEPT ![id].status = status, ![id].exit_code = exit_code,
                       ![id].ended_at = TRUE]
    ELSE table

RowExists(id) == id \in RunIds /\ runs_db[id].status # "absent"

\* CompletionStatus with a fault: any observed exit counts as a success
CompletionStatusAnyExit(exit_status) ==
    IF exit_status # None THEN "success" ELSE "failed"

\* CompletionStatus with a fault: a reader task that stopped on a read error
\* makes the run Failed
CompletionStatusFailsOnReadError(exit_status) ==
    IF \E r \in RunIds, s \in Streams : line_pc[r][s] = "error" THEN "failed"
    ELSE IF exit_status # None
         THEN IF exit_status[1].success THEN "success" ELSE "failed"
         ELSE "failed"

\* (status, exit_code) the completion task derives from its exit_status
CompletionStatus(exit_status) ==
    IF exit_status # None
    THEN IF exit_status[1].success THEN "success" ELSE "failed"
    ELSE "failed"
\* CompletionExitCode with a fault: a run with no exit status gets a code too
CompletionExitCodeDefaulted(exit_status) ==
    IF exit_status # None THEN exit_status[1].code ELSE Some(MaxExitCode)

CompletionExitCode(exit_status) ==
    IF exit_status # None THEN exit_status[1].code ELSE None

RunInit ==
    /\ runs_db = [r \in RunIds |-> NoRun]
    /\ active_runs = [r \in RunIds |-> NoRun]
    /\ active_processes = {}
    /\ processes_lock = Free
    /\ run_logs_present = {}
    /\ run_logs_readers = {}
    /\ proc = [r \in RunIds |-> "none"]
    /\ proc_code = [r \in RunIds |-> 0]
    /\ start_pc = [r \in RunIds |-> "idle"]
    /\ start_result = [r \in RunIds |-> "pending"]
    /\ task_pc = [r \in RunIds |-> "none"]
    /\ task_exit = [r \in RunIds |-> None]
    /\ cancel_pc = [c \in Cancellers |-> "idle"]
    /\ cancel_target = [c \in Cancellers |-> UnknownId]
    /\ cancel_found = [c \in Cancellers |-> FALSE]
    /\ cancel_result = [c \in Cancellers |-> "pending"]
    /\ db_writers = [r \in RunIds |-> {}]
    /\ wait_err = [r \in RunIds |-> FALSE]
    /\ run_logs = [r \in RunIds |-> <<>>]
    /\ db_run_logs = [r \in RunIds |-> {}]
    /\ output_tx = [r \in RunIds |-> <<>>]
    /\ delivery = [r \in RunIds |-> "ok"]
    /\ run_output = [r \in RunIds |-> <<>>]
    /\ out_emitted = [r \in RunIds |-> [s \in Streams |-> 0]]
    /\ out_pipe = [r \in RunIds |-> [s \in Streams |-> <<>>]]
    /\ line_pc = [r \in RunIds |-> [s \in Streams |-> "none"]]
    /\ line_local = [r \in RunIds |-> [s \in Streams |-> <<>>]]

\* ------------------------------------------ start_build / _test / _deploy
\* create_run: INSERT INTO runs ... 'running'
StartCreateDb(r) ==
    /\ start_pc[r] = "idle"
    /\ runs_db' = [runs_db EXCEPT ![r] = NewRun]
    /\ start_pc' = [start_pc EXCEPT ![r] = "create_cache"]
    /\ UNCHANGED <<scriptVars, callVars>>
    /\ UNCHANGED <<wait_err, logVars>>
    /\ UNCHANGED <<active_runs, active_processes, processes_lock,
                   run_logs_present, run_logs_readers, proc, proc_code,
                   start_result, task_pc, task_exit, cancel_pc, cancel_target,
                   cancel_found, cancel_result, db_writers>>

\* create_run: active.insert(run.id, run)
StartCreateCache(r) ==
    /\ start_pc[r] = "create_cache"
    /\ active_runs' = [active_runs EXCEPT ![r] = NewRun]
    /\ start_pc' = [start_pc EXCEPT ![r] = "resolve"]
    /\ UNCHANGED <<scriptVars, callVars>>
    /\ UNCHANGED <<wait_err, logVars>>
    /\ UNCHANGED <<runs_db, active_processes, processes_lock,
                   run_logs_present, run_logs_readers, proc, proc_code,
                   start_result, task_pc, task_exit, cancel_pc, cancel_target,
                   cancel_found, cancel_result, db_writers>>

\* get_*_command(&path)? : a Validation error returns from the start operation
StartResolve(r) ==
    /\ start_pc[r] = "resolve"
    /\ \E rt \in RunTypes, present \in SUBSET Markers :
         LET command == ResolveCommand(rt, present) IN
         IF command.ok
         THEN /\ start_pc' = [start_pc EXCEPT ![r] = "spawn"]
              /\ UNCHANGED start_result
         ELSE /\ start_pc' = [start_pc EXCEPT ![r] = "done"]
              /\ start_result' = [start_result EXCEPT ![r] = "Validation"]
    /\ UNCHANGED <<scriptVars, callVars>>
    /\ UNCHANGED <<wait_err, logVars>>
    /\ UNCHANGED <<runs_db, active_runs, active_processes, processes_lock,
                   run_logs_present, run_logs_readers, proc, proc_code,
                   task_pc, task_exit, cancel_pc, cancel_target,
                   cancel_found, cancel_result, db_writers>>

\* execute_command from `logs.insert(run_id, Vec::new())` on, the lock taken:
\* the two reader tasks and the completion task are spawned, Ok(())
InitLogsAndSpawnTasks(r) ==
    /\ run_logs_present' = run_logs_present \cup {r}
    /\ run_logs' = [run_logs EXCEPT ![r] = <<>>]
    /\ line_pc' = [line_pc EXCEPT ![r] = [s \in Streams |-> "read"]]
    /\ task_pc' = [task_pc EXCEPT ![r] = "lock"]
    /\ start_pc' = [start_pc EXCEPT ![r] = "done"]
    /\ start_result' = [start_result EXCEPT ![r] = "Ok"]

\* execute_command from `processes.insert(run_id, child)` on, the lock taken:
\* the code runs on to `run_logs.write().await`, and if that is granted at
\* once through the three tokio::spawn to Ok(())
RegisterChild(r) ==
    /\ active_processes' = active_processes \cup {r}
    /\ IF run_logs_readers = {}
       THEN InitLogsAndSpawnTasks(r)
       ELSE /\ start_pc' = [start_pc EXCEPT ![r] = "init_logs"]
            /\ UNCHANGED <<run_logs_present, run_logs, line_pc, task_pc,
                           start_result>>

\* execute_command: cmd.spawn()? : a spawn failure returns a Process error;
\* otherwise `processes.write().await` is polled: granted at once when the
\* lock is free, else the start operation waits for it
StartSpawn(r) ==
    /\ start_pc[r] = "spawn"
    /\ \E spawned \in BOOLEAN :
         IF spawned
         THEN /\ proc' = [proc EXCEPT ![r] = "running"]
              /\ IF processes_lock = Free
                 THEN RegisterChild(r)
                 ELSE /\ start_pc' = [start_pc EXCEPT ![r] = "register"]
                      /\ UNCHANGED <<active_processes, run_logs_present,
                                     run_logs, line_pc, task_pc, start_result>>
         ELSE /\ start_pc' = [start_pc EXCEPT ![r] = "done"]
              /\ start_result' = [start_result EXCEPT ![r] = "Process"]
              /\ UNCHANGED <<proc, active_processes, run_logs_present,
                             run_logs, line_pc, task_pc>>
    /\ UNCHANGED <<scriptVars, callVars>>
    /\ UNCHANGED <<wait_err, db_run_logs, logChanVars, logProcVars, line_local>>
    /\ UNCHANGED <<runs_db, active_runs, processes_lock, run_logs_readers,
                   proc_code, task_exit, cancel_pc, cancel_target,
                   cancel_found, cancel_result, db_writers>>

\* execute_command: `processes.write().await` granted after a wait
StartRegister(r) ==
    /\ start_pc[r] = "register"
    /\ processes_lock = Free
    /\ RegisterChild(r)
    /\ UNCHANGED <<scriptVars, callVars>>
    /\ UNCHANGED <<wait_err, db_run_logs, logChanVars, logProcVars, line_local>>
    /\ UNCHANGED <<runs_db, active_runs, processes_lock, run_logs_readers,
                   proc, proc_code, task_exit, cancel_pc, cancel_target,
                   cancel_found, cancel_result, db_writers>>

\* execute_command: `run_logs.write().await` granted after a wait;
\* logs.insert(run_id, Vec::new()), the tasks are spawned, Ok(())
StartInitLogs(r) ==
    /\ start_pc[r] = "init_logs"
    /\ run_logs_readers = {}
    /\ InitLogsAndSpawnTasks(r)
    /\ UNCHANGED <<scriptVars, callVars>>
    /\ UNCHANGED <<wait_err, db_run_logs, logChanVars, logProcVars, line_local>>
    /\ UNCHANGED <<runs_db, active_runs, active_processes, processes_lock,
                   run_logs_readers, proc, proc_code,
                   task_exit, cancel_pc, cancel_target,
                   cancel_found, cancel_result, db_writers>>

\* the child process exits by itself
ProcExit(r) ==
    /\ proc[r] = "running"
    /\ \E code \in ExitCodes :
         /\ proc' = [proc EXCEPT ![r] = "exited"]
         /\ proc_code' = [proc_code EXCEPT ![r] = code]
    /\ UNCHANGED <<scriptVars, callVars>>
    /\ UNCHANGED <<wait_err, logVars>>
    /\ UNCHANGED <<runs_db, active_runs, active_processes, processes_lock,
                   run_logs_present, run_logs_readers,
                   start_pc, start_result, task_pc, task_exit, cancel_pc,
                   cancel_target, cancel_found, cancel_result, db_writers>>

\* ------------------------------------------------------- completion task
\* let mut procs = processes.write().await; procs.remove(&run_id)
TaskAcquire(r) ==
    /\ task_pc[r] = "lock"
    /\ processes_lock = Free
    /\ IF r \in active_processes
       THEN /\ active_processes' = active_processes \ {r}
            /\ processes_lock' = <<"completion", r>>
            /\ task_pc' = [task_pc EXCEPT ![r] = "wait"]
            /\ UNCHANGED task_exit
       ELSE /\ task_exit' = [task_exit EXCEPT ![r] = None]
            /\ task_pc' = [task_pc EXCEPT ![r] = "db"]
            /\ UNCHANGED <<active_processes, processes_lock>>
    /\ UNCHANGED <<scriptVars, callVars>>
    /\ UNCHANGED <<wait_err, logVars>>
    /\ UNCHANGED <<runs_db, active_runs, run_logs_present, run_logs_readers,
                   proc, proc_code, start_pc, start_result, cancel_pc,
                   cancel_target, cancel_found, cancel_result, db_writers>>

\* child.wait().await.ok(), the guard `procs` still alive; dropped at the `}`
TaskWait(r) ==
    /\ task_pc[r] = "wait"
    /\ proc[r] = "exited"
    /\ \E wait_failed \in BOOLEAN :
         /\ task_exit' = [task_exit EXCEPT ![r] =
                             IF wait_failed THEN None
                             ELSE Some(ExitedStatus(proc_code[r]))]
         /\ wait_err' = [wait_err EXCEPT ![r] = wait_failed]
    /\ processes_lock' = Free
    /\ task_pc' = [task_pc EXCEPT ![r] = "db"]
    /\ UNCHANGED <<scriptVars, callVars>>
    /\ UNCHANGED logVars
    /\ UNCHANGED <<runs_db, active_runs, active_processes,
                   run_logs_present, run_logs_readers, proc, proc_code,
                   start_pc, start_result, cancel_pc, cancel_target,
                   cancel_found, cancel_result, db_writers>>

\* UPDATE runs SET status = ?, exit_code = ?, ended_at = ? WHERE id = ?
TaskUpdateDb(r) ==
    /\ task_pc[r] = "db"
    /\ runs_db' = UpdateCompleted(runs_db, r, CompletionStatus(task_exit[r]),
                                  CompletionExitCode(task_exit[r]))
    /\ db_writers' = [db_writers EXCEPT ![r] = @ \cup {"completion"}]
    /\ task_pc' = [task_pc EXCEPT ![r] = "logs"]
    /\ UNCHANGED <<scriptVars, callVars>>
    /\ UNCHANGED <<wait_err, logVars>>
    /\ UNCHANGED <<active_runs, active_processes, processes_lock,
                   run_logs_present, run_logs_readers, proc, proc_code,
                   start_pc, start_result, task_exit, cancel_pc,
                   cancel_target, cancel_found, cancel_result>>

\* let logs = run_logs_final.read().await; the INSERTs of the lines follow
TaskLogsBegin(r) ==
    /\ task_pc[r] = "logs"
    /\ run_logs_readers' = run_logs_readers \cup {r}
    /\ task_pc' = [task_pc EXCEPT ![r] = "persist"]
    /\ UNCHANGED <<scriptVars, callVars>>
    /\ UNCHANGED <<wait_err, logVars>>
    /\ UNCHANGED <<runs_db, active_runs, active_processes, processes_lock,
                   run_logs_present, proc, proc_code,
                   start_pc, start_result, task_exit, cancel_pc,
                   cancel_target, cancel_found, cancel_result, db_writers>>

\* for (i, line) in log_lines.iter().enumerate():
\* INSERT INTO run_logs (run_id, line, log_order) VALUES (?, ?, i)
PersistedRows(log_lines) == {<<i - 1, log_lines[i]>> : i \in 1..Len(log_lines)}

\* the INSERTs of the lines are done (the buffer cannot change while the read
\* guard is held): the guard is dropped, then
\* active.get_mut(&run_id): status, exit_code, ended_at
TaskUpdateCache(r) ==
    /\ task_pc[r] = "persist"
    /\ db_run_logs' = IF r \in run_logs_present
                      THEN [db_run_logs EXCEPT ![r] = @ \cup PersistedRows(run_logs[r])]
                      ELSE db_run_logs
    /\ run_logs_readers' = run_logs_readers \ {r}
    /\ active_runs' = UpdateCompleted(active_runs, r,
                                      CompletionStatus(task_exit[r]),
                                      CompletionExitCode(task_exit[r]))
    /\ task_pc' = [task_pc EXCEPT ![r] = "done"]
    /\ UNCHANGED <<scriptVars, callVars>>
    /\ UNCHANGED <<wait_err, run_logs, logChanVars, logProcVars, logReaderVars>>
    /\ UNCHANGED <<runs_db, active_processes, processes_lock,
                   run_logs_present, proc, proc_code,
                   start_pc, start_result, task_exit, cancel_pc,
                   cancel_target, cancel_found, cancel_result, db_writers>>

\* the cleanup task: sleep 300 s, then logs.remove(&run_id)
EvictLogs(r) ==
    /\ task_pc[r] = "done"
    /\ r \in run_logs_present
    /\ run_logs_readers = {}
    /\ run_logs_present' = run_logs_present \ {r}
    /\ run_logs' = [run_logs EXCEPT ![r] = <<>>]
    /\ UNCHANGED <<scriptVars, callVars>>
    /\ UNCHANGED <<wait_err, db_run_logs, logChanVars, logProcVars, logReaderVars>>
    /\ UNCHANGED <<runs_db, active_runs, active_processes, processes_lock,
                   run_logs_readers, proc, proc_code, start_pc, start_result,
                   task_pc, task_exit, cancel_pc, cancel_target, cancel_found,
                   cancel_result, db_writers>>

\* -------------------------------------------------------------- cancel_run
\* cancel_run with the lock taken: processes.remove(run_id), and the guard
\* lives until cancel_run returns
CancelLocked(c, id) ==
    /\ processes_lock' = <<"cancel", c>>
    /\ IF id \in active_processes
       THEN /\ active_processes' = active_processes \ {id}
            /\ cancel_found' = [cancel_found EXCEPT ![c] = TRUE]
            /\ cancel_pc' = [cancel_pc EXCEPT ![c] = "kill"]
       ELSE /\ cancel_pc' = [cancel_pc EXCEPT ![c] = "db"]
            /\ UNCHANGED <<active_processes, cancel_found>>

\* a caller invokes cancel_run(run_id), with an id it read from the store or
\* with any other string; `active_processes.write().await` is polled: granted
\* at once when the lock is free, else the call waits for it
CancelCall(c, id) ==
    /\ cancel_pc[c] = "idle"
    /\ id = UnknownId \/ RowExists(id)
    /\ cancel_target' = [cancel_target EXCEPT ![c] = id]
    /\ IF processes_lock = Free
       THEN CancelLocked(c, id)
       ELSE /\ cancel_pc' = [cancel_pc EXCEPT ![c] = "lock"]
            /\ UNCHANGED <<active_processes, processes_lock, cancel_found>>
    /\ UNCHANGED <<scriptVars, callVars>>
    /\ UNCHANGED <<wait_err, logVars>>
    /\ UNCHANGED <<runs_db, active_runs, run_logs_present, run_logs_readers,
                   proc, proc_code, start_pc, start_result, task_pc,
                   task_exit, cancel_result, db_writers>>

\* `active_processes.write().await` granted after a wait
CancelAcquire(c) ==
    /\ cancel_pc[c] = "lock"
    /\ processes_lock = Free
    /\ CancelLocked(c, cancel_target[c])
    /\ UNCHANGED <<scriptVars, callVars>>
    /\ UNCHANGED <<wait_err, logVars>>
    /\ UNCHANGED <<runs_db, active_runs, run_logs_present, run_logs_readers,
                   proc, proc_code, start_pc, start_result, task_pc,
                   task_exit, cancel_target, cancel_result, db_writers>>

\* child.kill().await: SIGKILL, then the child is reaped
CancelKill(c) ==
    /\ cancel_pc[c] = "kill"
    /\ proc' = [proc EXCEPT ![cancel_target[c]] =
                   IF @ = "running" THEN "killed" ELSE @]
    /\ cancel_pc' = [cancel_pc EXCEPT ![c] = "db"]
    /\ UNCHANGED <<scriptVars, callVars>>
    /\ UNCHANGED <<wait_err, logVars>>
    /\ UNCHANGED <<runs_db, active_runs, active_processes, processes_lock,
                   run_logs_present, run_logs_readers, proc_code,
                   start_pc, start_result, task_pc, task_exit,
                   cancel_target, cancel_found, cancel_result, db_writers>>

\* UPDATE runs SET status = 'cancelled', ended_at = ? WHERE id = ?
CancelUpdateDb(c) ==
    /\ cancel_pc[c] = "db"
    /\ runs_db' = UpdateCancelled(runs_db, cancel_target[c])
    /\ db_writers' = IF RowExists(cancel_target[c])
                     THEN [db_writers EXCEPT ![cancel_target[c]] = @ \cup {"cancel"}]
                     ELSE db_writers
    /\ cancel_pc' = [cancel_pc EXCEPT ![c] = "cache"]
    /\ UNCHANGED <<scriptVars, callVars>>
    /\ UNCHANGED <<wait_err, logVars>>
    /\ UNCHANGED <<active_runs, active_processes, processes_lock,
                   run_logs_present, run_logs_readers, proc, proc_code,
                   start_pc, start_result, task_pc, task_exit,
                   cancel_target, cancel_found, cancel_result>>

\* active.get_mut(run_id): status = Cancelled, ended_at; Ok(()); guards dropped
CancelUpdateCache(c) ==
    /\ cancel_pc[c] = "cache"
    /\ active_runs' = UpdateCancelled(active_runs, cancel_target[c])
    /\ cancel_result' = [cancel_result EXCEPT ![c] = "Ok"]
    /\ processes_lock' = Free
    /\ cancel_pc' = [cancel_pc EXCEPT ![c] = "done"]
    /\ UNCHANGED <<scriptVars, callVars>>
    /\ UNCHANGED <<wait_err, logVars>>
    /\ UNCHANGED <<runs_db, active_processes,
                   run_logs_present, run_logs_readers, proc, proc_code,
                   start_pc, start_result, task_pc, task_exit,
                   cancel_target, cancel_found, db_writers>>

RunNext ==
    \/ \E r \in RunIds : StartCreateDb(r)
    \/ \E r \in RunIds : StartCreateCache(r)
    \/ \E r \in RunIds : StartResolve(r)
    \/ \E r \in RunIds : StartSpawn(r)
    \/ \E r \in RunIds : StartRegister(r)
    \/ \E r \in RunIds : StartInitLogs(r)
    \/ \E r \in RunIds : ProcExit(r)
    \/ \E r \in RunIds : TaskAcquire(r)
    \/ \E r \in RunIds : TaskWait(r)
    \/ \E r \in RunIds : TaskUpdateDb(r)
    \/ \E r \in RunIds : TaskLogsBegin(r)
    \/ \E r \in RunIds : TaskUpdateCache(r)
    \/ \E r \in RunIds : EvictLogs(r)
    \/ \E c \in Cancellers, id \in CancelTargets : CancelCall(c, id)
    \/ \E c \in Cancellers : CancelAcquire(c)
    \/ \E c \in Cancellers : CancelKill(c)
    \/ \E c \in Cancellers : CancelUpdateDb(c)
    \/ \E c \in Cancellers : CancelUpdateCache(c)


\* ------------------------------------------------- process output (runs)
\* the process writes a line to stdout or stderr
OutEmit(r, s) ==
    /\ proc[r] = "running"
    /\ out_emitted[r][s] < MaxLines
    /\ out_emitted' = [out_emitted EXCEPT ![r][s] = @ + 1]
    /\ out_pipe' = [out_pipe EXCEPT ![r][s] = Append(@, <<s, out_emitted[r][s] + 1>>)]
    /\ UNCHANGED <<scriptVars, callVars>>
    /\ UNCHANGED <<runs_db, active_runs, active_processes, processes_lock,
                   run_logs_present, run_logs_readers, proc, proc_code,
                   start_pc, start_result, task_pc, task_exit, cancel_pc,
                   cancel_target, cancel_found, cancel_result, db_writers,
                   wait_err, logStoreVars, logReaderVars>>

\* stdout task: the line as read; stderr task: format!("[stderr] {}", line)
StdoutLine(line) == <<"", line[1], line[2]>>
StderrLine(line) == <<"[stderr] ", line[1], line[2]>>
FormatLine(s, line) == IF s = "stderr" THEN StderrLine(line) ELSE StdoutLine(line)

\* StoreAndSend with a fault: the line is delivered first, and a line that
\* could not be delivered is not kept
StoreAndSendUnlessFailed(r, text) ==
    /\ run_logs' = IF r \in run_logs_present /\ delivery[r] = "ok"
                   THEN [run_logs EXCEPT ![r] = Append(@, text)]
                   ELSE run_logs
    /\ output_tx' = [output_tx EXCEPT ![r] = Append(@, text)]
    /\ run_output' = IF delivery[r] = "ok"
                     THEN [run_output EXCEPT ![r] = Append(@, text)]
                     ELSE run_output

\* a reader task with the run_logs write lock taken:
\* if let Some(log_vec) = logs.get_mut(&run_id) { log_vec.push(text.clone()) }
\* the guard is dropped, then let _ = tx.send(text).await; the emit task of
\* the command takes the line with rx.recv() and does
\* let _ = window.emit("run-output", line): the window gets the event unless
\* the receiver is gone or the emission fails
StoreAndSend(r, text) ==
    /\ run_logs' = IF r \in run_logs_present
                   THEN [run_logs EXCEPT ![r] = Append(@, text)]
                   ELSE run_logs
    /\ output_tx' = [output_tx EXCEPT ![r] = Append(@, text)]
    /\ run_output' = IF delivery[r] = "ok"
                     THEN [run_output EXCEPT ![r] = Append(@, text)]
                     ELSE run_output

\* lines.next_line().await: Ok(Some(line)), Ok(None) at end of file (the pipe
\* is empty and its write end closed), or Err(_); with a line,
\* `run_logs.write().await` is polled: granted at once unless a completion
\* task holds the read guard
LineRead(r, s) ==
    /\ line_pc[r][s] = "read"
    /\ \/ /\ out_pipe[r][s] # <<>>
          /\ out_pipe' = [out_pipe EXCEPT ![r][s] = Tail(@)]
          /\ IF run_logs_readers = {}
             THEN /\ StoreAndSend(r, FormatLine(s, Head(out_pipe[r][s])))
                  /\ UNCHANGED <<line_pc, line_local>>
             ELSE /\ line_local' = [line_local EXCEPT ![r][s] =
                                       FormatLine(s, Head(out_pipe[r][s]))]
                  /\ line_pc' = [line_pc EXCEPT ![r][s] = "store"]
                  /\ UNCHANGED <<run_logs, output_tx, run_output>>
       \/ /\ out_pipe[r][s] = <<>>
          /\ proc[r] \in {"exited", "killed"}
          /\ line_pc' = [line_pc EXCEPT ![r][s] = "eof"]
          /\ UNCHANGED <<out_pipe, line_local, run_logs, output_tx, run_output>>
       \/ /\ line_pc' = [line_pc EXCEPT ![r][s] = "error"]
          /\ UNCHANGED <<out_pipe, line_local, run_logs, output_tx, run_output>>
    /\ UNCHANGED <<scriptVars, callVars>>
    /\ UNCHANGED <<runs_db, active_runs, active_processes, processes_lock,
                   run_logs_present, run_logs_readers, proc, proc_code,
                   start_pc, start_result, task_pc, task_exit, cancel_pc,
                   cancel_target, cancel_found, cancel_result, db_writers,
                   wait_err, db_run_logs, delivery, out_emitted>>

\* `run_logs.write().await` granted after a wait
LineStore(r, s) ==
    /\ line_pc[r][s] = "store"
    /\ run_logs_readers = {}
    /\ StoreAndSend(r, line_local[r][s])
    /\ line_local' = [line_local EXCEPT ![r][s] = <<>>]
    /\ line_pc' = [line_pc EXCEPT ![r][s] = "read"]
    /\ UNCHANGED <<scriptVars, callVars>>
    /\ UNCHANGED <<runs_db, active_runs, active_processes, processes_lock,
                   run_logs_present, run_logs_readers, proc, proc_code,
                   start_pc, start_result, task_pc, task_exit, cancel_pc,
                   cancel_target, cancel_found, cancel_result, db_writers,
                   wait_err, db_run_logs, delivery, logProcVars>>

\* ------------------------------------------------------- output delivery
\* the delivery path of the run's output changes: the window stops taking
\* events (window.emit returns Err), takes them again, or the receiving end
\* of the channel is dropped (tx.send returns Err from then on)
DeliveryChange(r) ==
    /\ start_pc[r] # "idle"
    /\ \E d \in {"ok", "emit_fails", "rx_closed"} :
         /\ d # delivery[r]
         /\ delivery[r] # "rx_closed"
         /\ delivery' = [delivery EXCEPT ![r] = d]
    /\ UNCHANGED <<scriptVars, callVars>>
    /\ UNCHANGED <<runs_db, active_runs, active_processes, processes_lock,
                   run_logs_present, run_logs_readers, proc, proc_code,
                   start_pc, start_result, task_pc, task_exit, cancel_pc,
                   cancel_target, cancel_found, cancel_result, db_writers,
                   wait_err, run_logs, db_run_logs, output_tx, run_output,
                   logProcVars, logReaderVars>>

\* ------------------------------------------------- get_run_logs, get_run
\* SELECT line FROM run_logs WHERE run_id = ? ORDER BY log_order
RowsInOrder(rows) ==
    [i \in 1..Cardinality(rows) |->
        (CHOOSE row \in rows :
            Cardinality({o \in rows : o[1] < row[1]}) = i - 1)[2]]

\* the cached Vec if the run has one, otherwise the rows of the store
get_run_logs(r) ==
    IF r \in run_logs_present THEN run_logs[r] ELSE RowsInOrder(db_run_logs[r])

\* where get_run takes the run from: the active_runs entry if there is one,
\* otherwise the row of the store, otherwise NotFound
get_run_source(r) ==
    IF active_runs[r] # NoRun THEN "cache"
    ELSE IF runs_db[r] # NoRun THEN "store" ELSE "NotFound"
get_run(r) ==
    IF active_runs[r] # NoRun THEN active_runs[r] ELSE runs_db[r]

\* one run whose output is followed, with the cancel_run calls on it (with no
\* second run, no completion task holds the run_logs read guard when the run
\* registers, so StartInitLogs has no part)
LogNext ==
    \/ \E r \in LoggedRunIds : StartCreateDb(r)
    \/ \E r \in LoggedRunIds : StartCreateCache(r)
    \/ \E r \in LoggedRunIds : StartResolve(r)
    \/ \E r \in LoggedRunIds : StartSpawn(r)
    \/ \E r \in LoggedRunIds : StartRegister(r)
    \/ \E r \in LoggedRunIds : ProcExit(r)
    \/ \E r \in LoggedRunIds, s \in Streams : OutEmit(r, s)
    \/ \E r \in LoggedRunIds, s \in Streams : LineRead(r, s)
    \/ \E r \in LoggedRunIds, s \in Streams : LineStore(r, s)
    \/ \E r \in LoggedRunIds : TaskAcquire(r)
    \/ \E r \in LoggedRunIds : TaskWait(r)
    \/ \E r \in LoggedRunIds : TaskUpdateDb(r)
    \/ \E r \in LoggedRunIds : TaskLogsBegin(r)
    \/ \E r \in LoggedRunIds : TaskUpdateCache(r)
    \/ \E r \in LoggedRunIds : EvictLogs(r)
    \/ \E c \in LogCancellers, id \in LoggedRunIds : CancelCall(c, id)
    \/ \E c \in LogCancellers : CancelAcquire(c)
    \/ \E c \in LogCancellers : CancelKill(c)
    \/ \E c \in LogCancellers : CancelUpdateDb(c)
    \/ \E c \in LogCancellers : CancelUpdateCache(c)


\* ------------------------------------------- ScriptService: definitions
NoScriptRun == [status |-> "absent", exit_code |-> None, finished_at |-> FALSE,
                logs |-> <<>>]
NewScriptRun == [status |-> "running", exit_code |-> None, finished_at |-> FALSE,
                 logs |-> <<>>]

CancelledMarker == <<"", "[cancelled] Script was cancelled by user", 0>>
ErrorMarker == <<"", "[error] Process error", 0>>

\* what a reader task appends for a chunk it read
StdoutText(chunk) == <<"", chunk[1], chunk[2]>>
StderrText(chunk) == <<"[stderr] ", chunk[1], chunk[2]>>
FormatChunk(s, chunk) == IF s = "stderr" THEN StderrText(chunk) ELSE StdoutText(chunk)

\* for flag in &script.flags { if flag.required && !input.flags.contains_key(..) }
MissingRequired(required, supplied) == \E f \in required : f \notin supplied

\* UPDATE script_runs SET logs = COALESCE(logs, '') || ? WHERE id = ?
append_logs(table, id, text) ==
    IF table[id].status # "absent"
    THEN [table EXCEPT ![id].logs = Append(@, text)]
    ELSE table

\* Ok(exit_status) => (success | failed, code); Err(e) => (failed, None)
ExitBranchStatus(result) ==
    IF result # None
    THEN IF result[1].success THEN "success" ELSE "failed"
    ELSE "failed"
ExitBranchCode(result) == IF result # None THEN result[1].code ELSE None

ScriptInit ==
    /\ script_runs = [r \in ScriptRunIds |-> NoScriptRun]
    /\ script_active_runs = {}
    /\ cancel_chan = [r \in ScriptRunIds |-> "none"]
    /\ sproc = [r \in ScriptRunIds |-> "none"]
    /\ sproc_code = [r \in ScriptRunIds |-> 0]
    /\ emitted = [r \in ScriptRunIds |-> [s \in Streams |-> 0]]
    /\ pipe = [r \in ScriptRunIds |-> [s \in Streams |-> <<>>]]
    /\ reader_pc = [r \in ScriptRunIds |-> [s \in Streams |-> "none"]]
    /\ reader_text = [r \in ScriptRunIds |-> [s \in Streams |-> <<>>]]
    /\ sstart_op = [r \in ScriptRunIds |-> "none"]
    /\ sstart_pc = [r \in ScriptRunIds |-> "idle"]
    /\ sstart_result = [r \in ScriptRunIds |-> "pending"]
    /\ script_required = [r \in ScriptRunIds |-> {}]
    /\ script_input = [r \in ScriptRunIds |-> {}]
    /\ stask_pc = [r \in ScriptRunIds |-> "none"]
    /\ stask_result = [r \in ScriptRunIds |-> None]
    /\ cancel_calls = [id \in ScriptCancelTargets |-> <<>>]
    /\ signals_sent = [id \in ScriptCancelTargets |-> 0]
    /\ kill_count = [r \in ScriptRunIds |-> 0]
    /\ status_writes = [r \in ScriptRunIds |-> <<>>]
    /\ select_ready = [r \in ScriptRunIds |-> {}]

sProcVars == <<sproc, sproc_code, emitted, pipe>>
sReaderVars == <<reader_pc, reader_text>>
sStartVars == <<sstart_op, sstart_pc, sstart_result, script_required, script_input>>
sTaskVars == <<stask_pc, stask_result>>
sCancelHist == <<cancel_calls, signals_sent>>
sTaskHist == <<kill_count, status_writes, select_ready>>

\* ------------------------------------------------------------ start_script
\* StartScriptValidate with a fault: the run record is inserted before the
\* required flags are validated
StartScriptInsertsBeforeValidate(r) ==
    /\ sstart_pc[r] = "idle"
    /\ script_runs' = [script_runs EXCEPT ![r] = NewScriptRun]
    /\ \E required \in SUBSET FlagNames, supplied \in SUBSET FlagNames :
         /\ script_required' = [script_required EXCEPT ![r] = required]
         /\ script_input' = [script_input EXCEPT ![r] = supplied]
         /\ IF MissingRequired(required, supplied)
            THEN /\ sstart_pc' = [sstart_pc EXCEPT ![r] = "done"]
                 /\ sstart_result' = [sstart_result EXCEPT ![r] = "Validation"]
            ELSE /\ sstart_pc' = [sstart_pc EXCEPT ![r] = "insert"]
                 /\ UNCHANGED sstart_result
    /\ sstart_op' = [sstart_op EXCEPT ![r] = "start_script"]
    /\ UNCHANGED <<runVars, callVars>>
    /\ UNCHANGED <<script_active_runs, cancel_chan, sProcVars,
                   sReaderVars, sTaskVars, sCancelHist, sTaskHist>>

\* get_script(script_id), then the "Validate required flags" loop
StartScriptValidate(r) ==
    /\ sstart_pc[r] = "idle"
    /\ \E required \in SUBSET FlagNames, supplied \in SUBSET FlagNames :
         /\ script_required' = [script_required EXCEPT ![r] = required]
         /\ script_input' = [script_input EXCEPT ![r] = supplied]
         /\ IF MissingRequired(required, supplied)
            THEN /\ sstart_pc' = [sstart_pc EXCEPT ![r] = "done"]
                 /\ sstart_result' = [sstart_result EXCEPT ![r] = "Validation"]
            ELSE /\ sstart_pc' = [sstart_pc EXCEPT ![r] = "insert"]
                 /\ UNCHANGED sstart_result
    /\ sstart_op' = [sstart_op EXCEPT ![r] = "start_script"]
    /\ UNCHANGED <<runVars, callVars>>
    /\ UNCHANGED <<script_runs, script_active_runs, cancel_chan, sProcVars,
                   sReaderVars, sTaskVars, sCancelHist, sTaskHist>>

\* INSERT INTO script_runs (..., status, ..., logs) VALUES (..., 'running', ..., '')
StartScriptInsert(r) ==
    /\ sstart_op[r] = "start_script"
    /\ sstart_pc[r] = "insert"
    /\ script_runs' = [script_runs EXCEPT ![r] = NewScriptRun]
    /\ sstart_pc' = [sstart_pc EXCEPT ![r] = "spawn"]
    /\ UNCHANGED <<runVars, callVars>>
    /\ UNCHANGED <<script_active_runs, cancel_chan, sProcVars, sReaderVars,
                   sstart_op, sstart_result, script_required, script_input,
                   sTaskVars, sCancelHist, sTaskHist>>

\* build_command(&script, &input.flags); cmd.spawn()? ; the input is consumed
StartScriptSpawn(r) ==
    /\ sstart_op[r] = "start_script"
    /\ sstart_pc[r] = "spawn"
    /\ \E spawned \in BOOLEAN :
         IF spawned
         THEN /\ sproc' = [sproc EXCEPT ![r] = "running"]
              /\ sstart_pc' = [sstart_pc EXCEPT ![r] = "register"]
              /\ UNCHANGED sstart_result
         ELSE /\ sstart_pc' = [sstart_pc EXCEPT ![r] = "done"]
              /\ sstart_result' = [sstart_result EXCEPT ![r] = "Process"]
              /\ UNCHANGED sproc
    /\ script_required' = [script_required EXCEPT ![r] = {}]
    /\ script_input' = [script_input EXCEPT ![r] = {}]
    /\ UNCHANGED <<runVars, callVars>>
    /\ UNCHANGED <<script_runs, script_active_runs, cancel_chan, sproc_code,
                   emitted, pipe, sReaderVars, sstart_op, sTaskVars,
                   sCancelHist, sTaskHist>>

\* oneshot::channel(); runs.insert(run_id, cancel_tx); tokio::spawn(task);
\* Ok(ScriptRun { status: Running, .. })
StartScriptRegister(r) ==
    /\ sstart_op[r] = "start_script"
    /\ sstart_pc[r] = "register"
    /\ script_active_runs' = script_active_runs \cup {r}
    /\ cancel_chan' = [cancel_chan EXCEPT ![r] = "open"]
    /\ stask_pc' = [stask_pc EXCEPT ![r] = "select"]
    /\ reader_pc' = [reader_pc EXCEPT ![r] = [s \in Streams |-> "read"]]
    /\ sstart_pc' = [sstart_pc EXCEPT ![r] = "done"]
    /\ sstart_result' = [sstart_result EXCEPT ![r] = "Ok"]
    /\ UNCHANGED <<runVars, callVars>>
    /\ UNCHANGED <<script_runs, sProcVars, reader_text, sstart_op,
                   script_required, script_input, stask_result,
                   sCancelHist, sTaskHist>>

\* ------------------------------------------------------- the child process
\* the script writes a chunk of output to stdout or stderr
ScriptEmit(r, s) ==
    /\ sproc[r] = "running"
    /\ emitted[r][s] < MaxChunks
    /\ emitted' = [emitted EXCEPT ![r][s] = @ + 1]
    /\ pipe' = [pipe EXCEPT ![r][s] = Append(@, <<s, emitted[r][s] + 1>>)]
    /\ UNCHANGED <<runVars, callVars>>
    /\ UNCHANGED <<script_runs, script_active_runs, cancel_chan, sproc,
                   sproc_code, sReaderVars, sStartVars, sTaskVars,
                   sCancelHist, sTaskHist>>

\* the script exits by itself
ScriptExit(r) ==
    /\ sproc[r] = "running"
    /\ \E code \in ExitCodes :
         /\ sproc' = [sproc EXCEPT ![r] = "exited"]
         /\ sproc_code' = [sproc_code EXCEPT ![r] = code]
    /\ UNCHANGED <<runVars, callVars>>
    /\ UNCHANGED <<script_runs, script_active_runs, cancel_chan, emitted, pipe,
                   sReaderVars, sStartVars, sTaskVars, sCancelHist, sTaskHist>>

\* ------------------------------------------------------------ reader tasks
\* stdout.read(&mut buffer).await: Ok(n) with a chunk, Ok(0) at end of file
\* (the pipe is empty and its write end closed), or Err(_)
ReaderRead(r, s) ==
    /\ reader_pc[r][s] = "read"
    /\ \/ /\ pipe[r][s] # <<>>
          /\ reader_text' = [reader_text EXCEPT ![r][s] = Head(pipe[r][s])]
          /\ pipe' = [pipe EXCEPT ![r][s] = Tail(@)]
          /\ reader_pc' = [reader_pc EXCEPT ![r][s] = "append"]
       \/ /\ pipe[r][s] = <<>>
          /\ sproc[r] \in {"exited", "killed"}
          /\ reader_pc' = [reader_pc EXCEPT ![r][s] = "eof"]
          /\ UNCHANGED <<reader_text, pipe>>
       \/ /\ reader_pc' = [reader_pc EXCEPT ![r][s] = "error"]
          /\ UNCHANGED <<reader_text, pipe>>
    /\ UNCHANGED <<runVars, callVars>>
    /\ UNCHANGED <<script_runs, script_active_runs, cancel_chan, sproc,
                   sproc_code, emitted, sStartVars, sTaskVars,
                   sCancelHist, sTaskHist>>

\* append_logs(&db_clone, &run_id, &text).await (stderr: the prefixed text)
ReaderAppend(r, s) ==
    /\ reader_pc[r][s] = "append"
    /\ script_runs' = append_logs(script_runs, r, FormatChunk(s, reader_text[r][s]))
    /\ reader_text' = [reader_text EXCEPT ![r][s] = <<>>]
    /\ reader_pc' = [reader_pc EXCEPT ![r][s] = "read"]
    /\ UNCHANGED <<runVars, callVars>>
    /\ UNCHANGED <<script_active_runs, cancel_chan, sProcVars, sStartVars,
                   sTaskVars, sCancelHist, sTaskHist>>

ReaderFinished(r, s) == reader_pc[r][s] \in {"eof", "error"}

\* ------------------------------------------------------ background task
\* tokio::select! { result = child.wait() => .., _ = cancel_rx => .. }
SelectExit(r) ==
    /\ stask_pc[r] = "select"
    /\ sproc[r] = "exited"
    /\ \E wait_failed \in BOOLEAN :
         stask_result' = [stask_result EXCEPT ![r] =
                             IF wait_failed THEN None
                             ELSE Some(ExitedStatus(sproc_code[r]))]
    /\ cancel_chan' = [cancel_chan EXCEPT ![r] = "closed"]
    /\ select_ready' = [select_ready EXCEPT ![r] =
                           {"exit"} \cup IF cancel_chan[r] = "sent"
                                         THEN {"cancel"} ELSE {}]
    /\ stask_pc' = [stask_pc EXCEPT ![r] = "join_stdout"]
    /\ UNCHANGED <<runVars, callVars>>
    /\ UNCHANGED <<script_runs, script_active_runs, sProcVars, sReaderVars,
                   sStartVars, sCancelHist, kill_count, status_writes>>

SelectCancel(r) ==
    /\ stask_pc[r] = "select"
    /\ cancel_chan[r] = "sent"
    /\ cancel_chan' = [cancel_chan EXCEPT ![r] = "closed"]
    /\ select_ready' = [select_ready EXCEPT ![r] =
                           {"cancel"} \cup IF sproc[r] = "exited"
                                           THEN {"exit"} ELSE {}]
    /\ stask_pc' = [stask_pc EXCEPT ![r] = "kill"]
    /\ UNCHANGED <<runVars, callVars>>
    /\ UNCHANGED <<script_runs, script_active_runs, sProcVars, sReaderVars,
                   sStartVars, stask_result, sCancelHist, kill_count,
                   status_writes>>

\* exit branch: if let Some(task) = stdout_task { let _ = task.await; }
ExitJoinStdout(r) ==
    /\ stask_pc[r] = "join_stdout"
    /\ ReaderFinished(r, "stdout")
    /\ stask_pc' = [stask_pc EXCEPT ![r] = "join_stderr"]
    /\ UNCHANGED <<runVars, callVars>>
    /\ UNCHANGED <<script_runs, script_active_runs, cancel_chan, sProcVars,
                   sReaderVars, sStartVars, stask_result, sCancelHist, sTaskHist>>

\* ExitJoinStderr with a fault: the stderr task is not awaited
ExitSkipsJoinStderr(r) ==
    /\ stask_pc[r] = "join_stderr"
    /\ stask_pc' = [stask_pc EXCEPT ![r] =
                       IF stask_result[r] = None THEN "error_log" ELSE "status"]
    /\ UNCHANGED <<runVars, callVars>>
    /\ UNCHANGED <<script_runs, script_active_runs, cancel_chan, sProcVars,
                   sReaderVars, sStartVars, stask_result, sCancelHist, sTaskHist>>

\* exit branch: if let Some(task) = stderr_task { let _ = task.await; }
\* then Err(e) => append_logs(.., "[error] Process error ..").await
ExitJoinStderr(r) ==
    /\ stask_pc[r] = "join_stderr"
    /\ ReaderFinished(r, "stderr")
    /\ stask_pc' = [stask_pc EXCEPT ![r] =
                       IF stask_result[r] = None THEN "error_log" ELSE "status"]
    /\ UNCHANGED <<runVars, callVars>>
    /\ UNCHANGED <<script_runs, script_active_runs, cancel_chan, sProcVars,
                   sReaderVars, sStartVars, stask_result, sCancelHist, sTaskHist>>

ExitErrorLog(r) ==
    /\ stask_pc[r] = "error_log"
    /\ script_runs' = append_logs(script_runs, r, ErrorMarker)
    /\ stask_pc' = [stask_pc EXCEPT ![r] = "status"]
    /\ UNCHANGED <<runVars, callVars>>
    /\ UNCHANGED <<script_active_runs, cancel_chan, sProcVars, sReaderVars,
                   sStartVars, stask_result, sCancelHist, sTaskHist>>

\* exit branch: UPDATE script_runs SET status = ?, exit_code = ?, finished_at = ?
ExitWriteStatus(r) ==
    /\ stask_pc[r] = "status"
    /\ script_runs' = [script_runs EXCEPT
                          ![r].status = ExitBranchStatus(stask_result[r]),
                          ![r].exit_code = ExitBranchCode(stask_result[r]),
                          ![r].finished_at = TRUE]
    /\ status_writes' = [status_writes EXCEPT ![r] =
                            Append(@, <<"exit", ExitBranchStatus(stask_result[r])>>)]
    /\ stask_pc' = [stask_pc EXCEPT ![r] = "remove"]
    /\ UNCHANGED <<runVars, callVars>>
    /\ UNCHANGED <<script_active_runs, cancel_chan, sProcVars, sReaderVars,
                   sStartVars, stask_result, sCancelHist, kill_count,
                   select_ready>>

\* cancel branch: let _ = child.kill().await
CancelBranchKill(r) ==
    /\ stask_pc[r] = "kill"
    /\ sproc' = [sproc EXCEPT ![r] = IF @ = "running" THEN "killed" ELSE @]
    /\ kill_count' = [kill_count EXCEPT ![r] = @ + 1]
    /\ stask_pc' = [stask_pc EXCEPT ![r] = "cancelled"]
    /\ UNCHANGED <<runVars, callVars>>
    /\ UNCHANGED <<script_runs, script_active_runs, cancel_chan, sproc_code,
                   emitted, pipe, sReaderVars, sStartVars, stask_result,
                   sCancelHist, status_writes, select_ready>>

\* cancel branch: UPDATE script_runs SET status = 'cancelled', finished_at = ?,
\* logs = COALESCE(logs, '') || '[cancelled] ...'
CancelBranchWrite(r) ==
    /\ stask_pc[r] = "cancelled"
    /\ script_runs' = [script_runs EXCEPT
                          ![r].status = "cancelled",
                          ![r].finished_at = TRUE,
                          ![r].logs = Append(@, CancelledMarker)]
    /\ status_writes' = [status_writes EXCEPT ![r] =
                            Append(@, <<"cancel", "cancelled">>)]
    /\ stask_pc' = [stask_pc EXCEPT ![r] = "remove"]
    /\ UNCHANGED <<runVars, callVars>>
    /\ UNCHANGED <<script_active_runs, cancel_chan, sProcVars, sReaderVars,
                   sStartVars, stask_result, sCancelHist, kill_count,
                   select_ready>>

\* let mut runs = active_runs.write().await; runs.remove(&run_id)
TaskRemove(r) ==
    /\ stask_pc[r] = "remove"
    /\ script_active_runs' = script_active_runs \ {r}
    /\ stask_pc' = [stask_pc EXCEPT ![r] = "done"]
    /\ UNCHANGED <<runVars, callVars>>
    /\ UNCHANGED <<script_runs, cancel_chan, sProcVars, sReaderVars,
                   sStartVars, stask_result, sCancelHist, sTaskHist>>

\* ----------------------------------------------------------- cancel_script
ScriptRowExists(id) == id \in ScriptRunIds /\ script_runs[id].status # "absent"

\* cancel_script with a fault: the cancel handler records Cancelled itself
cancel_script_records_status(id) ==
    /\ Len(cancel_calls[id]) < MaxCancelCalls
    /\ id = UnknownScriptId \/ ScriptRowExists(id)
    /\ IF id \in script_active_runs
       THEN /\ script_active_runs' = script_active_runs \ {id}
            /\ signals_sent' = [signals_sent EXCEPT ![id] = @ + 1]
            /\ cancel_chan' = [cancel_chan EXCEPT ![id] =
                                  IF @ = "open" THEN "sent" ELSE @]
            /\ cancel_calls' = [cancel_calls EXCEPT ![id] = Append(@, "Ok")]
            /\ script_runs' = [script_runs EXCEPT ![id].status = "cancelled",
                                                  ![id].finished_at = TRUE]
            /\ status_writes' = [status_writes EXCEPT ![id] =
                                    Append(@, <<"cancel", "cancelled">>)]
       ELSE /\ cancel_calls' = [cancel_calls EXCEPT ![id] = Append(@, "NotFound")]
            /\ UNCHANGED <<script_active_runs, signals_sent, cancel_chan,
                           script_runs, status_writes>>
    /\ UNCHANGED <<runVars, callVars>>
    /\ UNCHANGED <<sProcVars, sReaderVars, sStartVars, sTaskVars,
                   kill_count, select_ready>>

\* cancel_script with a fault: the handle is looked up, not removed
cancel_script_keeps_handle(id) ==
    /\ Len(cancel_calls[id]) < MaxCancelCalls
    /\ id = UnknownScriptId \/ ScriptRowExists(id)
    /\ IF id \in script_active_runs
       THEN /\ signals_sent' = [signals_sent EXCEPT ![id] = @ + 1]
            /\ cancel_chan' = [cancel_chan EXCEPT ![id] =
                                  IF @ = "open" THEN "sent" ELSE @]
            /\ cancel_calls' = [cancel_calls EXCEPT ![id] = Append(@, "Ok")]
       ELSE /\ cancel_calls' = [cancel_calls EXCEPT ![id] = Append(@, "NotFound")]
            /\ UNCHANGED <<signals_sent, cancel_chan>>
    /\ UNCHANGED <<runVars, callVars>>
    /\ UNCHANGED <<script_runs, script_active_runs, sProcVars, sReaderVars,
                   sStartVars, sTaskVars, sTaskHist>>

\* runs.remove(run_id): Some(cancel_tx) => { let _ = cancel_tx.send(()); Ok(()) }
\*                      None => Err(NotFound("No active process for run: .."))
cancel_script(id) ==
    /\ Len(cancel_calls[id]) < MaxCancelCalls
    /\ id = UnknownScriptId \/ ScriptRowExists(id)
    /\ IF id \in script_active_runs
       THEN /\ script_active_runs' = script_active_runs \ {id}
            /\ signals_sent' = [signals_sent EXCEPT ![id] = @ + 1]
            /\ cancel_chan' = [cancel_chan EXCEPT ![id] =
                                  IF @ = "open" THEN "sent" ELSE @]
            /\ cancel_calls' = [cancel_calls EXCEPT ![id] = Append(@, "Ok")]
       ELSE /\ cancel_calls' = [cancel_calls EXCEPT ![id] = Append(@, "NotFound")]
            /\ UNCHANGED <<script_active_runs, signals_sent, cancel_chan>>
    /\ UNCHANGED <<runVars, callVars>>
    /\ UNCHANGED <<script_runs, sProcVars, sReaderVars, sStartVars, sTaskVars,
                   sTaskHist>>

\* ---------------------------------------------------------- execute_script
\* get_script(script_id), then the "Validate required flags" loop
ExecuteScriptValidate(r) ==
    /\ sstart_pc[r] = "idle"
    /\ \E required \in SUBSET FlagNames, supplied \in SUBSET FlagNames :
         /\ script_required' = [script_required EXCEPT ![r] = required]
         /\ script_input' = [script_input EXCEPT ![r] = supplied]
         /\ IF MissingRequired(required, supplied)
            THEN /\ sstart_pc' = [sstart_pc EXCEPT ![r] = "done"]
                 /\ sstart_result' = [sstart_result EXCEPT ![r] = "Validation"]
            ELSE /\ sstart_pc' = [sstart_pc EXCEPT ![r] = "spawn"]
                 /\ UNCHANGED sstart_result
    /\ sstart_op' = [sstart_op EXCEPT ![r] = "execute_script"]
    /\ UNCHANGED <<runVars, callVars>>
    /\ UNCHANGED <<script_runs, script_active_runs, cancel_chan, sProcVars,
                   sReaderVars, sTaskVars, sCancelHist, sTaskHist>>

\* build_command(..); cmd.output(): the process is spawned, or Err => Process
ExecuteScriptSpawn(r) ==
    /\ sstart_op[r] = "execute_script"
    /\ sstart_pc[r] = "spawn"
    /\ \E spawned \in BOOLEAN :
         IF spawned
         THEN /\ sproc' = [sproc EXCEPT ![r] = "running"]
              /\ sstart_pc' = [sstart_pc EXCEPT ![r] = "output"]
              /\ UNCHANGED sstart_result
         ELSE /\ sstart_pc' = [sstart_pc EXCEPT ![r] = "done"]
              /\ sstart_result' = [sstart_result EXCEPT ![r] = "Process"]
              /\ UNCHANGED sproc
    /\ script_required' = [script_required EXCEPT ![r] = {}]
    /\ script_input' = [script_input EXCEPT ![r] = {}]
    /\ UNCHANGED <<runVars, callVars>>
    /\ UNCHANGED <<script_runs, script_active_runs, cancel_chan, sproc_code,
                   emitted, pipe, sReaderVars, sstart_op, sTaskVars,
                   sCancelHist, sTaskHist>>

\* cmd.output().await resolves: everything written is collected, or Err => Process
ExecuteScriptOutput(r) ==
    /\ sstart_op[r] = "execute_script"
    /\ sstart_pc[r] = "output"
    /\ sproc[r] = "exited"
    /\ \E failed \in BOOLEAN :
         IF failed
         THEN /\ sstart_pc' = [sstart_pc EXCEPT ![r] = "done"]
              /\ sstart_result' = [sstart_result EXCEPT ![r] = "Process"]
         ELSE /\ sstart_pc' = [sstart_pc EXCEPT ![r] = "insert"]
              /\ UNCHANGED sstart_result
    /\ UNCHANGED <<runVars, callVars>>
    /\ UNCHANGED <<script_runs, script_active_runs, cancel_chan, sProcVars,
                   sReaderVars, sstart_op, script_required, script_input,
                   sTaskVars, sCancelHist, sTaskHist>>

\* logs = format!("{}{}", stdout, stderr)
ExecuteScriptLogs(r) ==
    [i \in 1..Len(pipe[r]["stdout"]) |-> StdoutText(pipe[r]["stdout"][i])]
    \o [i \in 1..Len(pipe[r]["stderr"]) |-> StdoutText(pipe[r]["stderr"][i])]

\* INSERT INTO script_runs (.., finished_at, status, exit_code, .., logs); Ok(run)
ExecuteScriptInsert(r) ==
    /\ sstart_op[r] = "execute_script"
    /\ sstart_pc[r] = "insert"
    /\ script_runs' = [script_runs EXCEPT ![r] =
                          [status |-> IF ExitedStatus(sproc_code[r]).success
                                      THEN "success" ELSE "failed",
                           exit_code |-> ExitedStatus(sproc_code[r]).code,
                           finished_at |-> TRUE,
                           logs |-> ExecuteScriptLogs(r)]]
    /\ pipe' = [pipe EXCEPT ![r] = [s \in Streams |-> <<>>]]
    /\ sstart_pc' = [sstart_pc EXCEPT ![r] = "done"]
    /\ sstart_result' = [sstart_result EXCEPT ![r] = "Ok"]
    /\ UNCHANGED <<runVars, callVars>>
    /\ UNCHANGED <<script_active_runs, cancel_chan, sproc, sproc_code, emitted,
                   sReaderVars, sstart_op, script_required, script_input,
                   sTaskVars, sCancelHist, sTaskHist>>

ScriptNext ==
    \/ \E r \in ScriptRunIds : StartScriptValidate(r)
    \/ \E r \in ScriptRunIds : StartScriptInsert(r)
    \/ \E r \in ScriptRunIds : StartScriptSpawn(r)
    \/ \E r \in ScriptRunIds : StartScriptRegister(r)
    \/ \E r \in ScriptRunIds, s \in Streams : ScriptEmit(r, s)
    \/ \E r \in ScriptRunIds : ScriptExit(r)
    \/ \E r \in ScriptRunIds, s \in Streams : ReaderRead(r, s)
    \/ \E r \in ScriptRunIds, s \in Streams : ReaderAppend(r, s)
    \/ \E r \in ScriptRunIds : SelectExit(r)
    \/ \E r \in ScriptRunIds : SelectCancel(r)
    \/ \E r \in ScriptRunIds : ExitJoinStdout(r)
    \/ \E r \in ScriptRunIds : ExitJoinStderr(r)
    \/ \E r \in ScriptRunIds : ExitErrorLog(r)
    \/ \E r \in ScriptRunIds : ExitWriteStatus(r)
    \/ \E r \in ScriptRunIds : CancelBranchKill(r)
    \/ \E r \in ScriptRunIds : CancelBranchWrite(r)
    \/ \E r \in ScriptRunIds : TaskRemove(r)
    \/ \E id \in ScriptCancelTargets : cancel_script(id)
    \/ \E r \in ScriptRunIds : ExecuteScriptValidate(r)
    \/ \E r \in ScriptRunIds : ExecuteScriptSpawn(r)
    \/ \E r \in ScriptRunIds : ExecuteScriptOutput(r)
    \/ \E r \in ScriptRunIds : ExecuteScriptInsert(r)

\* ---------------------------------------------------- calls of functions
NotCalled == [fn |-> "none"]
NoCall ==
    /\ call_args = [fn |-> "none"]
    /\ call_ret = NotCalled

Returned(fn, value) == [fn |-> fn, value |-> value]

\* the project directory of a workspace, as the resolvers look at it: the
\* marker files it holds; and the script path start_deploy is given
ScriptPaths == {"script/Deploy.s.sol", "scripts/deploy.ts"}
ResolverInit ==
    /\ RunInit
    /\ ScriptInit
    /\ call_args \in [fn : {"resolver"}, present : SUBSET Markers,
                      script_path : ScriptPaths]
    /\ call_ret = NotCalled

CallGetBuildCommand ==
    /\ call_args.fn = "resolver"
    /\ call_ret' = Returned("get_build_command",
                            get_build_command(call_args.present))
    /\ UNCHANGED <<runVars, scriptVars, call_args>>

CallGetTestCommand ==
    /\ call_args.fn = "resolver"
    /\ call_ret' = Returned("get_test_command",
                            get_test_command(call_args.present))
    /\ UNCHANGED <<runVars, scriptVars, call_args>>

CallGetDeployCommand ==
    /\ call_args.fn = "resolver"
    /\ call_ret' = Returned("get_deploy_command",
                            get_deploy_command(call_args.present,
                                               call_args.script_path))
    /\ UNCHANGED <<runVars, scriptVars, call_args>>

\* ------------------------------------------------------- build_command
\* script.runner, script.file_path, script.command (the text that is split is
\* kept as its characters), script.flags (flag_name -> declaration) and the
\* values a caller may give a flag
ScriptRunners == {"Bash", "Node", "Bun", "Python", "Npx", "Custom",
                  "Forge", "ForgeTest", "ForgeBuild",
                  "Hardhat", "HardhatTest", "HardhatCompile",
                  "Anchor", "AnchorTest", "AnchorBuild",
                  "AptosMoveCompile", "AptosMoveTest", "AptosMovePublish"}
FilePaths == {"", ".", "test/Token.t.sol"}
CommandFields == {None, Some(<<>>),
                  Some(<<" ", "-", "v", " ", "\t", "x", " ">>)}
FlagDeclarations ==
    {[flag_type |-> "Boolean", default_value |-> Some("true")],
     [flag_type |-> "String", default_value |-> Some("main")],
     [flag_type |-> "Number", default_value |-> None]}
FlagValues == {"true", "false", "7"}
Whitespace == {" ", "\t", "\n"}

\* the orders in which a HashMap may hand out the keys `names`
IterationOrders(names) ==
    {order \in [1..Cardinality(names) -> names] :
        \A i, j \in 1..Cardinality(names) : order[i] = order[j] => i = j}

\* for (name, value) in flags { match script.flags.iter().find(..)
\*   .map(|f| f.flag_type) { Some(Boolean) => push name if value == "true",
\*   _ => push name, push value } }
RECURSIVE FlagArgs(_, _, _)
FlagArgs(declared, flags, order) ==
    IF order = <<>> THEN <<>>
    ELSE LET name == Head(order)
             value == flags[name]
             flag == IF name \in DOMAIN declared
                     THEN Some(declared[name]) ELSE None
             pushed == IF flag # None /\ flag[1].flag_type = "Boolean"
                       THEN IF value = "true" THEN <<name>> ELSE <<>>
                       ELSE <<name, value>>
         IN pushed \o FlagArgs(declared, flags, Tail(order))

\* str::split_whitespace: the maximal runs of characters that are not white
\* space; `word` is the run being read
RECURSIVE SplitFrom(_, _)
SplitFrom(chars, word) ==
    IF chars = <<>> THEN (IF word = "" THEN <<>> ELSE <<word>>)
    ELSE IF Head(chars) \in Whitespace
         THEN (IF word = "" THEN <<>> ELSE <<word>>) \o SplitFrom(Tail(chars), "")
         ELSE SplitFrom(Tail(chars), word \o Head(chars))
split_whitespace(chars) == SplitFrom(chars, "")

\* the characters as one string
RECURSIVE AsString(_)
AsString(chars) ==
    IF chars = <<>> THEN "" ELSE Head(chars) \o AsString(Tail(chars))

\* script.command.as_deref().unwrap_or("")
CommandOrEmpty(command) == IF command = None THEN <<>> ELSE command[1]

\* for arg in &args { cmd_str.push_str(&format!(" {}", arg)) }
RECURSIVE PushArgs(_, _)
PushArgs(cmd_str, args) ==
    IF args = <<>> THEN cmd_str
    ELSE PushArgs(cmd_str \o " " \o Head(args), Tail(args))

\* OptionalPath with a fault: only the empty path is left out
OptionalPathDotKept(file_path, before) ==
    IF file_path # "" THEN before \o <<file_path>> ELSE <<>>

\* if !script.file_path.is_empty() && script.file_path != "."
\*     { cmd.arg(..before..).arg(&script.file_path) }
OptionalPath(file_path, before) ==
    IF file_path # "" /\ file_path # "." THEN before \o <<file_path>> ELSE <<>>

Command(program, args) == [program |-> program, args |-> args]

\* build_command(script, flags), with `order` the order in which the HashMap
\* `flags` is iterated; get_shell_command() is that of a non-Windows build
build_command(script, flags, order) ==
    LET args == FlagArgs(script.flags, flags, order)
        extra_args == split_whitespace(CommandOrEmpty(script.command))
        file_path == script.file_path
        runner == script.runner
    IN
    CASE runner = "Bash" ->
           Command("/bin/sh", <<"-c", PushArgs(file_path, args)>>)
      [] runner = "Node" -> Command("node", <<file_path>> \o args)
      [] runner = "Bun" -> Command("bun", <<"run", file_path>> \o args)
      [] runner = "Python" -> Command("python3", <<file_path>> \o args)
      [] runner = "Npx" -> Command("npx", <<file_path>> \o args)
      [] runner = "Custom" ->
           LET base_cmd == AsString(CommandOrEmpty(script.command))
               with_path == IF file_path # "" /\ file_path # "."
                            THEN (IF base_cmd # "" THEN base_cmd \o " "
                                                  ELSE base_cmd) \o file_path
                            ELSE base_cmd
           IN Command("/bin/sh", <<"-c", PushArgs(with_path, args)>>)
      [] runner = "Forge" ->
           Command("forge", <<"script", file_path>> \o extra_args \o args)
      [] runner = "ForgeTest" ->
           Command("forge", <<"test">> \o OptionalPath(file_path, <<"--match-path">>)
                               \o extra_args \o args)
      [] runner = "ForgeBuild" ->
           Command("forge", <<"build">> \o extra_args \o args)
      [] runner = "Hardhat" ->
           Command("npx", <<"hardhat", "run", file_path>> \o extra_args \o args)
      [] runner = "HardhatTest" ->
           Command("npx", <<"hardhat", "test">> \o OptionalPath(file_path, <<>>)
                             \o extra_args \o args)
      [] runner = "HardhatCompile" ->
           Command("npx", <<"hardhat", "compile">> \o extra_args \o args)
      [] runner = "Anchor" ->
           Command("anchor", <<"run">> \o OptionalPath(file_path, <<>>)
                                \o extra_args \o args)
      [] runner = "AnchorTest" ->
           Command("anchor", <<"test">> \o OptionalPath(file_path, <<>>)
                                \o extra_args \o args)
      [] runner = "AnchorBuild" ->
           Command("anchor", <<"build">> \o extra_args \o args)
      [] runner = "AptosMoveCompile" ->
           Command("aptos", <<"move", "compile">> \o extra_args \o args)
      [] runner = "AptosMoveTest" ->
           Command("aptos", <<"move", "test">> \o OptionalPath(file_path, <<"--filter">>)
                               \o extra_args \o args)
      [] runner = "AptosMovePublish" ->
           Command("aptos", <<"move", "publish">> \o extra_args \o args)

\* a script with up to two declared flags, and a mapping of flag values
BuildCommandInit ==
    /\ RunInit
    /\ ScriptInit
    /\ \E declared_names \in SUBSET FlagNames, supplied \in SUBSET FlagNames :
         call_args \in [fn : {"build_command"},
                        script : [runner : ScriptRunners,
                                  file_path : FilePaths,
                                  command : CommandFields,
                                  flags : [declared_names -> FlagDeclarations]],
                        flags : [supplied -> FlagValues]]
    /\ call_ret = NotCalled

CallBuildCommand ==
    /\ call_args.fn = "build_command"
    /\ \E order \in IterationOrders(DOMAIN call_args.flags) :
         call_ret' = Returned("build_command",
                              build_command(call_args.script, call_args.flags,
                                            order))
    /\ UNCHANGED <<runVars, scriptVars, call_args>>

BuildCommandNext == CallBuildCommand

\* ---------------------------------------------------- is_valid_env_key
\* char::is_ascii_alphabetic, char::is_ascii_alphanumeric
AsciiAlphabetic ==
    {"A", "B", "C", "D", "E", "F", "G", "H", "I", "J", "K", "L", "M",
     "N", "O", "P", "Q", "R", "S", "T", "U", "V", "W", "X", "Y", "Z",
     "a", "b", "c", "d", "e", "f", "g", "h", "i", "j", "k", "l", "m",
     "n", "o", "p", "q", "r", "s", "t", "u", "v", "w", "x", "y", "z"}
AsciiDigit == {"0", "1", "2", "3", "4", "5", "6", "7", "8", "9"}
is_ascii_alphabetic(c) == c \in AsciiAlphabetic
is_ascii_alphanumeric(c) == c \in AsciiAlphabetic \cup AsciiDigit

\* Iterator::all over what is left of `chars`
RECURSIVE AllRest(_)
AllRest(chars) ==
    IF chars = <<>> THEN TRUE
    ELSE IF is_ascii_alphanumeric(Head(chars)) \/ Head(chars) = "_"
         THEN AllRest(Tail(chars))
         ELSE FALSE

\* is_valid_env_key with a fault: the first character is checked like the rest
is_valid_env_key_any_first(key) ==
    IF key = <<>> THEN FALSE ELSE AllRest(key)

\* is_valid_env_key(key), the key given as its characters
is_valid_env_key(key) ==
    IF key = <<>> THEN FALSE
    ELSE IF ~(is_ascii_alphabetic(Head(key)) \/ Head(key) = "_") THEN FALSE
    ELSE AllRest(Tail(key))

\* the characters keys are made of here: letters of both cases, a digit, the
\* underscore, and characters that belong to none of these
MaxKeyLen == 3
KeyChars == {"A", "z", "_", "7", "-", " ", ".", "é"}
Keys == UNION {[1..n -> KeyChars] : n \in 0..MaxKeyLen}

EnvKeyInit ==
    /\ RunInit
    /\ ScriptInit
    /\ call_args \in [fn : {"is_valid_env_key"}, key : Keys]
    /\ call_ret = NotCalled

CallIsValidEnvKey ==
    /\ call_args.fn = "is_valid_env_key"
    /\ call_ret' = Returned("is_valid_env_key", is_valid_env_key(call_args.key))
    /\ UNCHANGED <<runVars, scriptVars, call_args>>

EnvKeyNext == CallIsValidEnvKey

ResolverNext ==
    \/ CallGetBuildCommand
    \/ CallGetTestCommand
    \/ CallGetDeployCommand

\* ------------------------------------------------------- specifications
vars == <<runVars, scriptVars, callVars>>
Init == RunInit /\ ScriptInit /\ NoCall

\* the three resolvers applied to every project directory
SpecResolver == ResolverInit /\ [][ResolverNext]_vars

\* is_valid_env_key applied to every key of up to MaxKeyLen characters
SpecEnvKey == EnvKeyInit /\ [][EnvKeyNext]_vars

\* build_command applied to scripts of every runner kind
SpecBuildCommand == BuildCommandInit /\ [][BuildCommandNext]_vars

\* RunService alone, and ScriptService alone: the two share no state
SpecRun == Init /\ [][RunNext]_vars
SpecScript == Init /\ [][ScriptNext]_vars
\* RunService with one run's output followed line by line
SpecLogs == Init /\ [][LogNext]_vars

\* one run that nobody cancels, its output followed line by line, with a
\* delivery path that may fail
DeliveryNext ==
    \/ \E r \in LoggedRunIds : StartCreateDb(r)
    \/ \E r \in LoggedRunIds : StartCreateCache(r)
    \/ \E r \in LoggedRunIds : StartResolve(r)
    \/ \E r \in LoggedRunIds : StartSpawn(r)
    \/ \E r \in LoggedRunIds : ProcExit(r)
    \/ \E r \in LoggedRunIds, s \in Streams : OutEmit(r, s)
    \/ \E r \in LoggedRunIds, s \in Streams : LineRead(r, s)
    \/ \E r \in LoggedRunIds, s \in Streams : LineStore(r, s)
    \/ \E r \in LoggedRunIds : DeliveryChange(r)
    \/ \E r \in LoggedRunIds : TaskAcquire(r)
    \/ \E r \in LoggedRunIds : TaskWait(r)
    \/ \E r \in LoggedRunIds : TaskUpdateDb(r)
    \/ \E r \in LoggedRunIds : TaskLogsBegin(r)
    \/ \E r \in LoggedRunIds : TaskUpdateCache(r)
    \/ \E r \in LoggedRunIds : EvictLogs(r)
SpecDelivery == Init /\ [][DeliveryNext]_vars

\* either service at work while the other one is idle: the two share no
\* state, so the states of this specification are those of SpecLogs and those
\* of SpecScript (each of which fires every one of its actions)
ServicesNext ==
    \/ ScriptInit /\ LogNext
    \/ RunInit /\ ScriptNext
SpecServices == Init /\ [][ServicesNext]_vars

\* the steps of each task the runtime runs: a start operation after its
\* call, a completion task, a reader task, the cleanup task, a cancel_run call
\* after its call; and for scripts a start_script or execute_script operation
\* after its call, a reader task, the background task
StartOperation(r) ==
    StartCreateCache(r) \/ StartResolve(r) \/ StartSpawn(r) \/ StartRegister(r)
CompletionTask(r) ==
    \/ TaskAcquire(r)
    \/ TaskWait(r)
    \/ TaskUpdateDb(r)
    \/ TaskLogsBegin(r)
    \/ TaskUpdateCache(r)
LineReaderTask(r, s) == LineRead(r, s) \/ LineStore(r, s)
CancelRunCall(c) ==
    CancelAcquire(c) \/ CancelKill(c) \/ CancelUpdateDb(c) \/ CancelUpdateCache(c)
ScriptStartOperation(r) ==
    \/ StartScriptInsert(r)
    \/ StartScriptSpawn(r)
    \/ StartScriptRegister(r)
    \/ ExecuteScriptSpawn(r)
    \/ ExecuteScriptOutput(r)
    \/ ExecuteScriptInsert(r)
ChunkReaderTask(r, s) == ReaderRead(r, s) \/ ReaderAppend(r, s)
BackgroundTask(r) ==
    \/ SelectExit(r)
    \/ SelectCancel(r)
    \/ ExitJoinStdout(r)
    \/ ExitJoinStderr(r)
    \/ ExitErrorLog(r)
    \/ ExitWriteStatus(r)
    \/ CancelBranchKill(r)
    \/ CancelBranchWrite(r)
    \/ TaskRemove(r)

\* the tokio runtime polls every task that can make a step, and the store
\* answers every statement: no task that stays able to step waits for ever.
\* Nothing is assumed of the callers (a start or a cancel may never be called)
\* nor of the child processes (a process may run for ever)
TasksScheduled ==
    /\ \A r \in LoggedRunIds : WF_vars(StartOperation(r))
    /\ \A r \in LoggedRunIds : WF_vars(CompletionTask(r))
    /\ \A r \in LoggedRunIds, s \in Streams : WF_vars(LineReaderTask(r, s))
    /\ \A r \in LoggedRunIds : WF_vars(EvictLogs(r))
    /\ \A c \in LogCancellers : WF_vars(CancelRunCall(c))
    /\ \A r \in ScriptRunIds : WF_vars(ScriptStartOperation(r))
    /\ \A r \in ScriptRunIds, s \in Streams : WF_vars(ChunkReaderTask(r, s))
    /\ \A r \in ScriptRunIds : WF_vars(BackgroundTask(r))

\* the two services with every task scheduled
SpecLive == Init /\ [][ServicesNext]_vars /\ TasksScheduled

\* ================================================================= claims
RunTasksDone(r) ==
    /\ task_pc[r] = "done"
    /\ \A c \in Cancellers :
         cancel_target[c] = r => cancel_pc[c] \in {"idle", "done"}

\* C1: a build/test/deploy run's terminal status (row and cached snapshot) is
\* absorbing, no step of cancel_run or of the completion task changes it, and
\* the row is updated by the completion handler or by the cancellation
\* handler, never by both.
C1_TerminalAbsorbing ==
    [][\A r \in RunIds :
         /\ Terminal(runs_db[r].status) => runs_db'[r].status = runs_db[r].status
         /\ Terminal(active_runs[r].status)
               => active_runs'[r].status = active_runs[r].status
         /\ Cardinality(db_writers'[r]) <= 1]_vars

\* C2: when cancel_run found the run's live process handle, removed it and
\* killed the process, the status recorded once every task on the run has
\* finished is Cancelled.
C2_KilledRunEndsCancelled ==
    \A c \in Cancellers :
        (cancel_found[c] /\ cancel_target[c] \in RunIds
            /\ RunTasksDone(cancel_target[c]))
        => runs_db[cancel_target[c]].status = "cancelled"

\* C4: a cancel_run call that found no active process handle returns NotFound,
\* never success.
C4_NoHandleIsNotFound ==
    \A c \in Cancellers :
        (cancel_pc[c] = "done" /\ ~cancel_found[c]) => cancel_result[c] = "NotFound"

\* C6: a cancel_run request for a run whose process is still running is never
\* held up until that process exits by itself: the lock it needs is not held
\* by the task that awaits the process's exit.
C6_CancelDoesNotWaitForExit ==
    \A c \in Cancellers :
        (cancel_pc[c] = "lock" /\ cancel_target[c] \in RunIds
            /\ proc[cancel_target[c]] = "running")
        => processes_lock # <<"completion", cancel_target[c]>>

\* C7: no task holds the active_processes lock or the run_logs lock while it
\* awaits process exit, a process kill or a database write.
C7_NoLockAcrossAwait ==
    /\ \A r \in RunIds :
         task_pc[r] = "wait" => processes_lock # <<"completion", r>>
    /\ \A c \in Cancellers :
         cancel_pc[c] \in {"kill", "db"} => processes_lock # <<"cancel", c>>
    /\ \A r \in RunIds :
         task_pc[r] = "persist" => r \notin run_logs_readers

\* C8: a start operation that has spawned its process is never blocked until
\* the process of a different, still executing run exits.
C8_StartNotBlockedByOtherRun ==
    \A r \in RunIds :
        start_pc[r] = "register"
        => ~(\E o \in RunIds \ {r} :
               /\ processes_lock = <<"completion", o>>
               /\ proc[o] = "running")

\* C9: when the resolver returned a Validation error, the start operation has
\* created no run record, neither in the store nor in the active-run cache.
C9_ValidationCreatesNoRun ==
    \A r \in RunIds :
        start_result[r] = "Validation"
        => (runs_db[r] = NoRun /\ active_runs[r] = NoRun)

\* C3: a script run started by start_script gets exactly one terminal status
\* write: never two; one once the select! branch has run; Success/Failed
\* from the exit branch or Cancelled from the cancel branch; and the row
\* carries that status (nothing else wrote one).
C3_ExactlyOneTerminalWrite ==
    \A r \in ScriptRunIds :
        sstart_op[r] = "start_script" =>
          /\ Len(status_writes[r]) <= 1
          /\ stask_pc[r] \in {"remove", "done"} => Len(status_writes[r]) = 1
          /\ \A i \in 1..Len(status_writes[r]) :
               \/ /\ status_writes[r][i][1] = "exit"
                  /\ status_writes[r][i][2] \in {"success", "failed"}
               \/ /\ status_writes[r][i][1] = "cancel"
                  /\ status_writes[r][i][2] = "cancelled"
          /\ IF status_writes[r] = <<>>
             THEN script_runs[r].status \in {"absent", "running"}
             ELSE script_runs[r].status = status_writes[r][1][2]

\* C3 witness: the process had exited and the cancel signal had been sent when
\* select! resolved, and the task has finished.
C3_RaceResolved ==
    \E r \in ScriptRunIds :
        /\ stask_pc[r] = "done"
        /\ select_ready[r] = {"exit", "cancel"}

\* C5: over the cancel_script calls for one run id, every call after one that
\* returned Ok returns NotFound; the cancel signal is sent at most once and
\* the process is killed at most once.
C5_SecondCancelNotFound ==
    \A id \in ScriptCancelTargets :
        /\ \A i, j \in 1..Len(cancel_calls[id]) :
             (i < j /\ cancel_calls[id][i] = "Ok") => cancel_calls[id][j] = "NotFound"
        /\ signals_sent[id] <= 1
        /\ id \in ScriptRunIds => kill_count[id] <= 1

\* C5 witness: a first cancel succeeded and killed the process, a second
\* returned NotFound.
C5_CancelledTwice ==
    \E r \in ScriptRunIds :
        /\ cancel_calls[r] = <<"Ok", "NotFound">>
        /\ kill_count[r] = 1

C11_SpawnFailureRecordsFailed ==
    /\ \A r \in RunIds :
         start_result[r] = "Process"
         => (runs_db[r].status = "failed" /\ active_runs[r].status = "failed")
    /\ \A r \in ScriptRunIds :
         (sstart_op[r] = "start_script" /\ sstart_result[r] = "Process")
         => script_runs[r].status = "failed"

\* C12: for every run record (build/test/deploy runs in the store and in the
\* cache, script runs in the store), ended_at / finished_at is set if and only
\* if the status is terminal (Success, Failed or Cancelled).
C12_EndedAtIffTerminal ==
    /\ \A r \in RunIds :
         /\ runs_db[r].ended_at <=> Terminal(runs_db[r].status)
         /\ active_runs[r].ended_at <=> Terminal(active_runs[r].status)
    /\ \A r \in ScriptRunIds :
         script_runs[r].finished_at <=> Terminal(script_runs[r].status)

\* C12 witness: cancel_run has written Cancelled with ended_at to the row of a
\* run whose cached snapshot is still Running with no ended_at.
C12_CancelledRowStamped ==
    \E r \in RunIds :
        /\ runs_db[r].status = "cancelled"
        /\ runs_db[r].ended_at
        /\ active_runs[r].status = "running"
        /\ ~active_runs[r].ended_at

\* C13: a run record carries an exit_code only if the run's process exited by
\* itself and that exit was observed, and then it is the process's exit code;
\* a run whose spawn failed, or whose process was killed by cancellation before
\* it exited, has none.
C13_ExitCodeOnlyFromExit ==
    /\ \A r \in RunIds :
         /\ runs_db[r].exit_code # None
               => (proc[r] = "exited" /\ runs_db[r].exit_code = Some(proc_code[r]))
         /\ active_runs[r].exit_code # None
               => (proc[r] = "exited" /\ active_runs[r].exit_code = Some(proc_code[r]))
    /\ \A r \in ScriptRunIds :
         script_runs[r].exit_code # None
            => (sproc[r] = "exited" /\ script_runs[r].exit_code = Some(sproc_code[r]))

\* C13 witness: cancel_run killed the process, and the completion task has
\* then written its result for the run.
C13_KilledThenCompleted ==
    \E r \in RunIds :
        /\ proc[r] = "killed"
        /\ task_pc[r] = "done"
        /\ "completion" \in db_writers[r]

\* the record a run gets when its process exited with `code` and no cancel
\* interfered; with `failed_wait`, the wait on the process returned an error
ExpectedStatus(code, failed_wait) ==
    IF failed_wait THEN "failed" ELSE IF code = 0 THEN "success" ELSE "failed"
ExpectedExitCode(code, failed_wait) == IF failed_wait THEN None ELSE Some(code)

NoCancelRequested(r) == \A c \in Cancellers : cancel_target[c] # r

\* C14: when no cancellation was requested and the child process exited, the
\* run ends Success if the exit status reports success and Failed otherwise,
\* with exit_code the process's exit code and ended_at set; an error while
\* waiting on the process gives Failed with no exit code (build/test/deploy
\* runs: row and cache; script runs of start_script and of execute_script).
C14_ExitDecidesStatus ==
    /\ \A r \in RunIds :
         (task_pc[r] = "done" /\ NoCancelRequested(r)) =>
           /\ proc[r] = "exited"
           /\ \A rec \in {runs_db[r], active_runs[r]} :
                /\ rec.status = ExpectedStatus(proc_code[r], wait_err[r])
                /\ rec.exit_code = ExpectedExitCode(proc_code[r], wait_err[r])
                /\ rec.ended_at
    /\ \A r \in ScriptRunIds :
         (sstart_op[r] = "start_script" /\ stask_pc[r] \in {"remove", "done"}
             /\ cancel_calls[r] = <<>>) =>
           /\ sproc[r] = "exited"
           /\ script_runs[r].status
                 = ExpectedStatus(sproc_code[r], stask_result[r] = None)
           /\ script_runs[r].exit_code
                 = ExpectedExitCode(sproc_code[r], stask_result[r] = None)
           /\ script_runs[r].finished_at
    /\ \A r \in ScriptRunIds :
         (sstart_op[r] = "execute_script" /\ sstart_result[r] = "Ok") =>
           /\ sproc[r] = "exited"
           /\ script_runs[r].status = ExpectedStatus(sproc_code[r], FALSE)
           /\ script_runs[r].exit_code = ExpectedExitCode(sproc_code[r], FALSE)
           /\ script_runs[r].finished_at

\* C14 witness: a process exited with a non-zero code, nobody cancelled, and
\* the completion task has finished.
C14_NonZeroExitCompleted ==
    \E r \in RunIds :
        /\ task_pc[r] = "done"
        /\ NoCancelRequested(r)
        /\ proc_code[r] # 0
        /\ ~wait_err[r]

\* C15: whenever a run's recorded status is Cancelled, its child process is
\* not running: the process was killed and reaped before Cancelled was
\* written (build/test/deploy runs: row and cache; script runs: row).
C15_CancelledMeansNotRunning ==
    /\ \A r \in RunIds :
         (runs_db[r].status = "cancelled" \/ active_runs[r].status = "cancelled")
         => proc[r] # "running"
    /\ \A r \in ScriptRunIds :
         script_runs[r].status = "cancelled" => sproc[r] # "running"

\* the lines of one stream within a merged sequence, and the lines the
\* process has written to the stream, as the reader task formats them
StreamOf(seq, s) == SelectSeq(seq, LAMBDA e : e[2] = s)
EmittedLines(r, s) == [i \in 1..out_emitted[r][s] |-> FormatLine(s, <<s, i>>)]
IsPrefix(a, b) == Len(a) <= Len(b) /\ \A i \in 1..Len(a) : a[i] = b[i]

\* within a stream, the buffer, the channel and the persisted rows hold the
\* lines in emission order, without gap or repetition; once the reader has
\* seen end of file the channel holds all of them, and so does the buffer
\* while it exists
LinesInEmissionOrder ==
    \A r \in RunIds, s \in Streams :
        /\ IsPrefix(StreamOf(run_logs[r], s), EmittedLines(r, s))
        /\ IsPrefix(StreamOf(output_tx[r], s), EmittedLines(r, s))
        /\ IsPrefix(StreamOf(RowsInOrder(db_run_logs[r]), s), EmittedLines(r, s))
        /\ line_pc[r][s] = "eof" =>
             /\ StreamOf(output_tx[r], s) = EmittedLines(r, s)
             /\ r \in run_logs_present
                   => StreamOf(run_logs[r], s) = EmittedLines(r, s)

\* C16: for a process that wrote lines L1..LN to one stream, once the run has
\* completed and the stream's reader has seen end of file, the in-memory
\* buffer (while it exists), the sequence sent on the output channel and the
\* persisted log records ordered by log_order each hold L1..LN in that order,
\* whatever the interleaving with the other stream.
C16_StreamLinesInOrder ==
    \A r \in RunIds, s \in Streams :
        (task_pc[r] = "done" /\ line_pc[r][s] = "eof") =>
          /\ r \in run_logs_present
                => StreamOf(run_logs[r], s) = EmittedLines(r, s)
          /\ StreamOf(output_tx[r], s) = EmittedLines(r, s)
          /\ StreamOf(RowsInOrder(db_run_logs[r]), s) = EmittedLines(r, s)

\* how many entries of the logs are the chunk `text`
Occurrences(logs, text) == Cardinality({i \in 1..Len(logs) : logs[i] = text})

ExitStatusWritten(r) ==
    status_writes[r] # <<>> /\ status_writes[r][1][1] = "exit"

\* C17: for a script run that ends by natural process exit, no chunk is ever
\* appended to the durable logs twice, and when the terminal status Success /
\* Failed is written both reader tasks have finished and every chunk of a
\* stream whose reader saw end of file is in the logs exactly once.
C17_ChunksOnceBeforeStatus ==
    \A r \in ScriptRunIds :
        sstart_op[r] = "start_script" =>
          /\ \A s \in Streams, n \in 1..MaxChunks :
               Occurrences(script_runs[r].logs, FormatChunk(s, <<s, n>>)) <= 1
          /\ ExitStatusWritten(r) =>
               \A s \in Streams :
                 /\ ReaderFinished(r, s)
                 /\ reader_pc[r][s] = "eof" =>
                      \A n \in 1..emitted[r][s] :
                        Occurrences(script_runs[r].logs, FormatChunk(s, <<s, n>>)) = 1

\* C17 witness: the process wrote to both streams and exited, both readers saw
\* end of file, and the exit branch has written the status.
C17_BothStreamsThenStatus ==
    \E r \in ScriptRunIds :
        /\ ExitStatusWritten(r)
        /\ \A s \in Streams : emitted[r][s] = MaxChunks /\ reader_pc[r][s] = "eof"

\* C18: for a completed build/test/deploy run, get_run_logs returns the same
\* ordered lines from the in-memory buffer during the retention window as
\* from the store after eviction, and the snapshot persisted at completion
\* holds every line captured for the run.
C18_EvictionLosesNothing ==
    \A r \in RunIds :
        task_pc[r] = "done" =>
          /\ get_run_logs(r) = RowsInOrder(db_run_logs[r])
          /\ \A i \in 1..Len(output_tx[r]) :
               \E row \in db_run_logs[r] : row[2] = output_tx[r][i]

\* C19: once a run has reached a terminal state (its completion task and every
\* cancel_run call on it have finished), it is no longer in the active cache:
\* get_run takes it from the durable store.
C19_TerminalRunServedFromStore ==
    \A r \in RunIds :
        (RunTasksDone(r) /\ Terminal(runs_db[r].status))
        => get_run_source(r) = "store"

\* the marker a captured unit of the stream carries
MarkerOf(s) == IF s = "stderr" THEN "[stderr] " ELSE ""
UnitMarked(e) == e[2] \in Streams => e[1] = MarkerOf(e[2])
AllMarked(seq) == \A i \in 1..Len(seq) : UnitMarked(seq[i])

\* the reader tasks of build/test/deploy runs and of start_script: every unit
\* is formatted when it is read (stderr with the marker, stdout unchanged),
\* and the buffer, the channel and the persisted rows hold that one form
CapturedUnitsMarked ==
    /\ \A r \in RunIds :
         /\ AllMarked(run_logs[r])
         /\ AllMarked(output_tx[r])
         /\ AllMarked(RowsInOrder(db_run_logs[r]))
         /\ \A s \in Streams :
              line_local[r][s] # <<>> => line_local[r][s][1] = MarkerOf(s)
         /\ \A i \in 1..Len(run_logs[r]) :
              \E j \in 1..Len(output_tx[r]) : output_tx[r][j] = run_logs[r][i]
    /\ \A r \in ScriptRunIds :
         sstart_op[r] = "start_script" => AllMarked(script_runs[r].logs)

\* C20: every unit of stderr output is stored and streamed carrying the
\* "[stderr] " marker, applied when the unit is captured; stdout units are
\* stored and streamed unchanged, and the stored and the streamed form of a
\* unit are identical (build/test/deploy runs, and the logs of script runs).
C20_StderrCarriesMarker ==
    /\ CapturedUnitsMarked
    /\ \A r \in ScriptRunIds : AllMarked(script_runs[r].logs)


\* ------------------------------------------------------------------- C21
\* the lines of the run that were sent but never reached the window
Undelivered(r) == Len(output_tx[r]) - Len(run_output[r])

\* C21: a failed delivery to the live-output channel (receiver gone, or the
\* event emission failing) does not abort the run: while the log buffer
\* exists it holds every line the readers took, delivered or not; a reader
\* that saw end of file took every line the process wrote to its stream; and
\* when nobody cancelled, the terminal status and exit code are those of the
\* process's exit.
C21_DeliveryFailureKeepsRun ==
    \A r \in RunIds :
        /\ r \in run_logs_present => run_logs[r] = output_tx[r]
        /\ \A s \in Streams :
             line_pc[r][s] = "eof"
                 => StreamOf(output_tx[r], s) = EmittedLines(r, s)
        /\ (task_pc[r] = "done" /\ NoCancelRequested(r)) =>
             \A rec \in {runs_db[r], active_runs[r]} :
                /\ rec.status = ExpectedStatus(proc_code[r], wait_err[r])
                /\ rec.exit_code = ExpectedExitCode(proc_code[r], wait_err[r])

\* C21 witness: the first line of a run was not delivered, a later line was
\* still captured, both are in the buffer, and the run ended Success.
C21_UndeliveredLineKept ==
    \E r \in RunIds :
        /\ Undelivered(r) > 0
        /\ delivery[r] # "ok"
        /\ r \in run_logs_present
        /\ Len(run_logs[r]) >= 2
        /\ task_pc[r] = "done"
        /\ runs_db[r].status = "success"


\* ------------------------------------------------------------------- C22
\* the markers in priority order, the first of them a directory holds, and the
\* argv of each action for each marker
MarkerPriority == <<"foundry.toml", "Anchor.toml", "Move.toml",
                    "hardhat.config.js", "hardhat.config.ts">>
FirstMarker(present) ==
    MarkerPriority[CHOOSE i \in 1..Len(MarkerPriority) :
                      /\ MarkerPriority[i] \in present
                      /\ \A j \in 1..(i - 1) : MarkerPriority[j] \notin present]
ArgvTemplate(fn, marker, script_path) ==
    CASE marker = "foundry.toml" ->
           (CASE fn = "get_build_command" -> <<"forge", "build">>
              [] fn = "get_test_command" -> <<"forge", "test", "-vvv">>
              [] OTHER -> <<"forge", "script", script_path, "--broadcast">>)
      [] marker = "Anchor.toml" ->
           (CASE fn = "get_build_command" -> <<"anchor", "build">>
              [] fn = "get_test_command" -> <<"anchor", "test">>
              [] OTHER -> <<"anchor", "deploy">>)
      [] marker = "Move.toml" ->
           (CASE fn = "get_build_command" -> <<"aptos", "move", "compile">>
              [] fn = "get_test_command" -> <<"aptos", "move", "test">>
              [] OTHER -> <<"aptos", "move", "publish">>)
      [] OTHER ->
           (CASE fn = "get_build_command" -> <<"npx", "hardhat", "compile">>
              [] fn = "get_test_command" -> <<"npx", "hardhat", "test">>
              [] OTHER -> <<"npx", "hardhat", "run", script_path>>)
ResolverFns == {"get_build_command", "get_test_command", "get_deploy_command"}

\* C22: for build, test and deploy and every combination of marker files, the
\* resolver returns the argv of the first marker present in the order
\* foundry.toml, Anchor.toml, Move.toml, hardhat.config.js/.ts, whatever
\* lower-priority markers are present too, and a Validation error when no
\* marker is present.
C22_FirstMarkerSelectsArgv ==
    call_ret.fn \in ResolverFns =>
        IF call_args.present = {}
        THEN ~call_ret.value.ok
        ELSE /\ call_ret.value.ok
             /\ call_ret.value.argv
                  = ArgvTemplate(call_ret.fn, FirstMarker(call_args.present),
                                 call_args.script_path)

\* C22 witness: a directory with three markers but no foundry.toml resolved for
\* test: Anchor wins over Move and Hardhat.
C22_AnchorBeatsMoveAndHardhat ==
    /\ call_ret.fn = "get_test_command"
    /\ call_args.present = {"Anchor.toml", "Move.toml", "hardhat.config.ts"}
    /\ call_ret.value.argv = <<"anchor", "test">>


\* ------------------------------------------------------------- C23, C24
\* the runner kinds whose command is an argv (the others hand one string to
\* the shell), and for each: the fixed start of the argv, how file_path is
\* given, and whether the words of the command field are passed through
ShellRunners == {"Bash", "Custom"}
ArgvRunners == ScriptRunners \ ShellRunners
BaseArgv(runner) ==
    CASE runner = "Node" -> <<"node">>
      [] runner = "Bun" -> <<"bun", "run">>
      [] runner = "Python" -> <<"python3">>
      [] runner = "Npx" -> <<"npx">>
      [] runner = "Forge" -> <<"forge", "script">>
      [] runner = "ForgeTest" -> <<"forge", "test">>
      [] runner = "ForgeBuild" -> <<"forge", "build">>
      [] runner = "Hardhat" -> <<"npx", "hardhat", "run">>
      [] runner = "HardhatTest" -> <<"npx", "hardhat", "test">>
      [] runner = "HardhatCompile" -> <<"npx", "hardhat", "compile">>
      [] runner = "Anchor" -> <<"anchor", "run">>
      [] runner = "AnchorTest" -> <<"anchor", "test">>
      [] runner = "AnchorBuild" -> <<"anchor", "build">>
      [] runner = "AptosMoveCompile" -> <<"aptos", "move", "compile">>
      [] runner = "AptosMoveTest" -> <<"aptos", "move", "test">>
      [] runner = "AptosMovePublish" -> <<"aptos", "move", "publish">>
PathAlways == {"Node", "Bun", "Python", "Npx", "Forge", "Hardhat"}
PathOptional == {"HardhatTest", "Anchor", "AnchorTest"}
PathNever == {"ForgeBuild", "HardhatCompile", "AnchorBuild",
              "AptosMoveCompile", "AptosMovePublish"}
PathTokens(runner, file_path) ==
    IF runner \in PathNever THEN <<>>
    ELSE IF runner \in PathAlways THEN <<file_path>>
    ELSE IF file_path \in {"", "."} THEN <<>>
    ELSE IF runner = "ForgeTest" THEN <<"--match-path", file_path>>
    ELSE IF runner = "AptosMoveTest" THEN <<"--filter", file_path>>
    ELSE <<file_path>>
Passthrough == ArgvRunners \ {"Node", "Bun", "Python", "Npx"}
\* the words of the command fields of CommandFields
WordsOf(command) ==
    IF command = Some(<<" ", "-", "v", " ", "\t", "x", " ">>)
    THEN <<"-v", "x">> ELSE <<>>
ExtraTokens(runner, command) ==
    IF runner \in Passthrough THEN WordsOf(command) ELSE <<>>
ArgvOf(command) == <<command.program>> \o command.args
ArgvBeforeFlags(script) ==
    BaseArgv(script.runner) \o PathTokens(script.runner, script.file_path)
        \o ExtraTokens(script.runner, script.command)
Range(f) == {f[x] : x \in DOMAIN f}

\* C24: for the argv-based runner kinds the argv is, in this order, the fixed
\* base argv, the file_path (positional, or after --match-path for forge test
\* and --filter for aptos move test; left out when empty or "." where it is
\* optional; never given for the build, compile and publish kinds), the
\* whitespace-split words of the command field for the kinds with passthrough,
\* and then nothing but tokens of the flag mapping.
C24_ArgvOrder ==
    (call_ret.fn = "build_command" /\ call_args.script.runner \in ArgvRunners) =>
        LET argv == ArgvOf(call_ret.value)
            before == ArgvBeforeFlags(call_args.script)
        IN /\ IsPrefix(before, argv)
           /\ \A i \in (Len(before) + 1)..Len(argv) :
                argv[i] \in DOMAIN call_args.flags \cup Range(call_args.flags)
           /\ call_args.flags = <<>> => argv = before

\* C24 witness: forge test with a path, a command field of two words and one
\* flag: base, --match-path path, the words, the flag.
C24_ForgeTestFullArgv ==
    /\ call_ret.fn = "build_command"
    /\ call_args.script.runner = "ForgeTest"
    /\ ArgvOf(call_ret.value)
         = <<"forge", "test", "--match-path", "test/Token.t.sol", "-v", "x",
             "--name", "7">>


\* the tokens a flag gives: a boolean flag its bare name when the value is
\* exactly "true" and nothing otherwise, a flag of another type its name and
\* its value
FlagTokens(flag_type, name, value) ==
    IF flag_type = "Boolean"
    THEN IF value = "true" THEN <<name>> ELSE <<>>
    ELSE <<name, value>>
\* the tokens of the flags `order` names, one after the other; a name the
\* script does not declare is rendered as `undeclared` says
RECURSIVE TokensOf(_, _, _, _)
TokensOf(declared, flags, order, undeclared) ==
    IF order = <<>> THEN <<>>
    ELSE LET name == Head(order)
             tokens == IF name \in DOMAIN declared
                       THEN FlagTokens(declared[name].flag_type, name, flags[name])
                       ELSE undeclared[name]
         IN tokens \o TokensOf(declared, flags, Tail(order), undeclared)
\* the result is that of the script without flags, followed by `tokens`
EndsWithTokens(script, command, tokens) ==
    IF script.runner \in ArgvRunners
    THEN ArgvOf(command) = ArgvBeforeFlags(script) \o tokens
    ELSE command.args
           = <<"-c", PushArgs(build_command(script, <<>>, <<>>).args[2], tokens)>>

\* C23: for every runner kind the flag tokens of the command are exactly the
\* renderings of the declared flags present in the mapping (boolean: the bare
\* name when the value is exactly "true", nothing otherwise; other types:
\* name, value), in some order of the flags; a declared flag absent from the
\* mapping gives no token, whatever its default.
C23_FlagTokensOfDeclaredFlags ==
    call_ret.fn = "build_command" =>
        LET script == call_args.script
            flags == call_args.flags
            rendered == DOMAIN script.flags \cap DOMAIN flags
        IN \E order \in IterationOrders(rendered) :
              EndsWithTokens(script, call_ret.value,
                             TokensOf(script.flags, flags, order,
                                      [n \in DOMAIN flags |-> <<>>]))

\* what build_command does do: every entry of the mapping is rendered, and an
\* entry whose name the script does not declare is rendered as name, value
FlagTokensOfMapping ==
    call_ret.fn = "build_command" =>
        LET script == call_args.script
            flags == call_args.flags
        IN \E order \in IterationOrders(DOMAIN flags) :
              EndsWithTokens(script, call_ret.value,
                             TokensOf(script.flags, flags, order,
                                      [n \in DOMAIN flags |-> <<n, flags[n]>>]))


\* ------------------------------------------------------------------- C25
\* C25: is_valid_env_key accepts a key if and only if the key is not empty,
\* its first character is an ASCII letter or an underscore, and every other
\* character is an ASCII letter, a digit or an underscore.
C25_EnvKeyFormat ==
    call_ret.fn = "is_valid_env_key" =>
        LET key == call_args.key IN
        call_ret.value
          <=> /\ Len(key) > 0
              /\ key[1] \in AsciiAlphabetic \cup {"_"}
              /\ \A i \in 2..Len(key) :
                   key[i] \in AsciiAlphabetic \cup AsciiDigit \cup {"_"}

\* C25 witness: a key starting with an underscore and holding a digit is
\* accepted.
C25_UnderscoreDigitKeyAccepted ==
    /\ call_ret.fn = "is_valid_env_key"
    /\ call_args.key = <<"_", "7", "A">>
    /\ call_ret.value


\* ------------------------------------------------------------------- C26
\* a reader task of the run stopped on a read error
RunReadError(r) == \E s \in Streams : line_pc[r][s] = "error"
ScriptReadError(r) == \E s \in Streams : reader_pc[r][s] = "error"

\* C26: a read error on stdout or stderr only stops the reading of that
\* stream: the reader of the other stream still takes every line up to end of
\* file, and the finished run's status is the one the process's exit gives
\* or, a cancellation having been requested, Cancelled or what the completion
\* task writes for a process cancel_run took away (Failed, no exit code):
\* the outcomes of a run without read error (build/test/deploy runs: row and
\* cache; script runs of start_script).
C26_ReadErrorStopsOneStream ==
    /\ \A r \in RunIds :
         RunReadError(r) =>
           /\ \A s \in Streams :
                line_pc[r][s] = "eof"
                    => StreamOf(output_tx[r], s) = EmittedLines(r, s)
           /\ RunTasksDone(r) =>
                \A rec \in {runs_db[r], active_runs[r]} :
                   \/ rec.status = "cancelled" /\ ~NoCancelRequested(r)
                   \/ /\ proc[r] = "exited"
                      /\ rec.status = ExpectedStatus(proc_code[r], wait_err[r])
                      /\ rec.exit_code = ExpectedExitCode(proc_code[r], wait_err[r])
                   \/ /\ ~NoCancelRequested(r)
                      /\ rec.status = "failed" /\ rec.exit_code = None
    /\ \A r \in ScriptRunIds :
         (sstart_op[r] = "start_script" /\ ScriptReadError(r)) =>
           /\ \A s \in Streams :
                (reader_pc[r][s] = "eof" /\ stask_pc[r] \in {"remove", "done"}
                    /\ ExitStatusWritten(r)) =>
                  \A n \in 1..emitted[r][s] :
                     Occurrences(script_runs[r].logs, FormatChunk(s, <<s, n>>)) = 1
           /\ stask_pc[r] \in {"remove", "done"} =>
                \/ script_runs[r].status = "cancelled" /\ cancel_calls[r] # <<>>
                \/ /\ sproc[r] = "exited"
                   /\ script_runs[r].status
                        = ExpectedStatus(sproc_code[r], stask_result[r] = None)
                   /\ script_runs[r].exit_code
                        = ExpectedExitCode(sproc_code[r], stask_result[r] = None)

\* C26 witness: the stderr reader stopped on a read error, the stdout reader
\* took every line up to end of file, and the run ended Success.
C26_StderrErrorRunSucceeds ==
    \E r \in RunIds :
        /\ line_pc[r]["stderr"] = "error"
        /\ line_pc[r]["stdout"] = "eof"
        /\ out_emitted[r]["stdout"] = MaxLines
        /\ StreamOf(output_tx[r], "stdout") = EmittedLines(r, "stdout")
        /\ task_pc[r] = "done"
        /\ runs_db[r].status = "success"


\* ------------------------------------------------------------------- C27
\* C27: once the completion task of a build/test/deploy run and every
\* cancel_run call on it have finished, the status and exit_code of the
\* snapshot get_run returns equal those of the run's durable record.
C27_SnapshotEqualsRecord ==
    \A r \in RunIds :
        (RunTasksDone(r) /\ RowExists(r)) =>
          /\ get_run(r).status = runs_db[r].status
          /\ get_run(r).exit_code = runs_db[r].exit_code


\* ------------------------------------------------------------------- C28
\* cancel_script returned Ok for the run
CancelAcknowledged(r) ==
    \E i \in 1..Len(cancel_calls[r]) : cancel_calls[r][i] = "Ok"

\* C28: when cancel_script returned Ok for a run, the status recorded for the
\* run once its background task has finished is Cancelled, also when the
\* process had already exited while its handle was still in the registry.
C28_AcknowledgedCancelRecorded ==
    \A r \in ScriptRunIds :
        (stask_pc[r] = "done" /\ CancelAcknowledged(r))
        => script_runs[r].status = "cancelled"


\* ------------------------------------------------------------------- C29
ScriptTerminal(status) == status \in {"success", "failed", "cancelled"}

\* C29: once the recorded status of a script run is terminal, no step changes
\* the run's durable logs again, and the logs of a cancelled run end with the
\* "[cancelled]" marker.
C29_LogsFrozenAfterTerminal ==
    [][\A r \in ScriptRunIds :
          /\ ScriptTerminal(script_runs[r].status)
                => script_runs'[r].logs = script_runs[r].logs
          /\ script_runs'[r].status = "cancelled"
                => /\ script_runs'[r].logs # <<>>
                   /\ script_runs'[r].logs[Len(script_runs'[r].logs)]
                        = CancelledMarker]_vars

\* ------------------------------------------------------------------- C30
\* a cancel_run call on the run has been made
RunCancelRequested(r) ==
    \E c \in Cancellers : cancel_target[c] = r /\ cancel_pc[c] # "idle"

\* build/test/deploy runs: once the process has exited or a cancel_run call
\* was made, the recorded status eventually is terminal with no handle of the
\* run left in active_processes
RunEndsAndFreesHandle ==
    \A r \in LoggedRunIds :
        (proc[r] = "exited" \/ (proc[r] # "none" /\ RunCancelRequested(r)))
        ~> (Terminal(runs_db[r].status) /\ r \notin active_processes)

\* script runs of start_script: once the process has exited or a cancel_script
\* call has found the run, the recorded status eventually is terminal with no
\* handle of the run left in active_runs
ScriptRunEndsAndFreesHandle ==
    \A r \in ScriptRunIds :
        (/\ sstart_op[r] = "start_script"
         /\ sproc[r] = "exited" \/ (sproc[r] # "none" /\ CancelAcknowledged(r)))
        ~> (ScriptTerminal(script_runs[r].status) /\ r \notin script_active_runs)

\* C30: for every run whose child process was spawned, by RunService or by
\* ScriptService, if the process exits or a cancel is requested then
\* eventually the run's recorded status is terminal and no handle of the run
\* remains in the process registry.
C30_SpawnedRunsEndAndFreeHandle ==
    RunEndsAndFreesHandle /\ ScriptRunEndsAndFreesHandle

====
